---- MODULE Spec2Model ----
(***************************************************************************)
(* A model of the chat engine of expo-openclaw-chat (ChatEngine, the       *)
(* state machine that turns gateway chat events into a message list).      *)
(*                                                                         *)
(* Texts are sequences of one-character strings, so that trim and join     *)
(* are computed character by character as String.prototype.trim and        *)
(* Array.prototype.join compute them.  Message ids are drawn from a        *)
(* counter (the code draws them from the clock and Math.random).  The      *)
(* timestamp and usage fields of a message are carried data that no        *)
(* handler reads; they are left out.                                       *)
(***************************************************************************)
EXTENDS Integers, Sequences, FiniteSets, TLC

\* ---------------------------------------------------------------- bounds
\* Number of messages the engine may create in one behaviour of Spec.
MaxIds == 3
\* The same, in one behaviour of SpecSubs.
MaxSubsIds == 2
\* The same, in one behaviour of SpecConn.
MaxConnIds == 1
\* Number of sockets a GatewayClient may open in one behaviour of SpecClient.
MaxSockets == 3
\* Number of requests it may issue.
MaxRequests == 2
\* Number of chatAbort promises that may be pending at once.
MaxInflight == 1
MaxKeys == 2
\* Number of messages the engine may create in one behaviour of SpecRuns.
MaxRunIds == 3

\* ---------------------------------------------------------------- values
NoRun == "none"
NoErr == <<"null">>
None == <<>>
Some(x) == <<x>>

OwnSession == "test-session"
ConnectionStates == {"disconnected", "connecting", "connected", "reconnecting"}

Whitespace == {" ", "\n", "\t"}

\* A content block; text holds the payload of a text or thinking block.
Block(type, text) == [type |-> type, text |-> text]
TextBlock(t) == Block("text", t)

T_Hi == <<"H", "i">>
T_Boom == <<"b", "o", "o", "m">>
T_Network == <<"n", "e", "t">>
T_NotConnected == <<"N", "o", "t", " ", "c", "o", "n", "n", "e", "c", "t", "e", "d">>
T_NO_REPLY == <<"N", "O", "_", "R", "E", "P", "L", "Y">>
T_HEARTBEAT_OK == <<"H", "E", "A", "R", "T", "B", "E", "A", "T", "_", "O", "K">>

Take(s, n) == SubSeq(s, 1, n)

\* ---------------------------------------------------------------- helpers
RECURSIVE trimStart(_)
trimStart(t) ==
    IF t # <<>> /\ Head(t) \in Whitespace THEN trimStart(Tail(t)) ELSE t

RECURSIVE trimEnd(_)
trimEnd(t) ==
    IF t # <<>> /\ t[Len(t)] \in Whitespace THEN trimEnd(Take(t, Len(t) - 1)) ELSE t

trim(t) == trimEnd(trimStart(t))

RECURSIVE joinText(_)
joinText(content) ==
    IF content = <<>> THEN <<>>
    ELSE IF Head(content).type = "text"
         THEN Head(content).text \o joinText(Tail(content))
         ELSE joinText(Tail(content))

silentPrefixes ==
    { Take(T_NO_REPLY, 7), Take(T_NO_REPLY, 6), Take(T_NO_REPLY, 5),
      Take(T_NO_REPLY, 4), Take(T_NO_REPLY, 3),
      Take(T_HEARTBEAT_OK, 11), Take(T_HEARTBEAT_OK, 10), Take(T_HEARTBEAT_OK, 9) }

\* A detection that takes every text beginning with a sentinel's stem.
isSilentReplyStartsWith(content) ==
    LET text == trim(joinText(content))
    IN  \/ Len(text) >= 3 /\ Take(text, 3) = Take(T_NO_REPLY, 3)
        \/ Len(text) >= 9 /\ Take(text, 9) = Take(T_HEARTBEAT_OK, 9)

isSilentReply(content) ==
    LET text == trim(joinText(content))
    IN  IF text = <<>> THEN FALSE
        ELSE IF text = T_NO_REPLY \/ text = T_HEARTBEAT_OK THEN TRUE
        ELSE text \in silentPrefixes

\* The content of a wire message: an array of blocks, a string, or absent.
ArrayContent(blocks) == [kind |-> "array", blocks |-> blocks, text |-> <<>>]
StringContent(t) == [kind |-> "string", blocks |-> <<>>, text |-> t]
NoContent == [kind |-> "undefined", blocks |-> <<>>, text |-> <<>>]

normalizeContent(content) ==
    IF content.kind = "array" THEN content.blocks
    ELSE IF content.kind = "string" THEN <<TextBlock(content.text)>>
    ELSE <<>>

VisibleTypes == {"text", "thinking", "image"}

\* A filter that lets every block through.
filterVisibleContentAll(content) == content

RECURSIVE filterVisibleContent(_)
filterVisibleContent(content) ==
    IF content = <<>> THEN <<>>
    ELSE IF Head(content).type \in VisibleTypes
         THEN <<Head(content)>> \o filterVisibleContent(Tail(content))
         ELSE filterVisibleContent(Tail(content))

\* Index of the last message of the run with role assistant, 0 when none.
RECURSIVE findExisting(_, _, _)
findExisting(list, runId, i) ==
    IF i = 0 THEN 0
    ELSE IF list[i].runId = runId /\ list[i].role = "assistant" THEN i
         ELSE findExisting(list, runId, i - 1)

UIMessage(id, role, content, isStreaming, isError, errorMessage, runId) ==
    [id |-> id, role |-> role, content |-> content, isStreaming |-> isStreaming,
     isError |-> isError, errorMessage |-> errorMessage, runId |-> runId]

\* ---------------------------------------------------------------- state
VARIABLES
    messages,       \* _messages: the public message list
    isStreaming,    \* _isStreaming
    activeRunId,    \* _activeRunId, NoRun for null
    error,          \* _error: the error's message, NoErr for null
    streamBuf,      \* streamBuf: None for null, Some(list) otherwise
    flushTimer,     \* flushTimer: "null", "pending" (armed), "cleared" (cancelled handle)
    timers,         \* the timeouts set by the engine that neither fired nor were cleared
    listeners,      \* the four listener sets, each in insertion order
    subscribed,     \* the client still holds the engine's two callbacks
    isConnected,    \* client.isConnected
    pendingSend,    \* chatSend promises not yet settled
    pendingAbort,   \* chatAbort promises not yet settled
    nextId,         \* source of fresh message ids
    lastOp,         \* the operation that produced this state, with its inputs
    emitted,        \* the notifications that operation made, in order
    netCalls,       \* the client calls that operation made, in order
    client,         \* a GatewayClient: its state, socket, timer and pending requests
    clientOp,       \* the client operation that produced this state, with its effects
    idp,            \* the identity module: its stores and the calls in flight
    idpOp,          \* the identity operation that produced this state, with its result
    modal           \* the ChatModal: whether it is visible

vars == <<messages, isStreaming, activeRunId, error, streamBuf, flushTimer, timers,
          listeners, subscribed, isConnected, pendingSend, pendingAbort,
          nextId, lastOp, emitted, netCalls, client, clientOp, idp, idpOp,
          modal>>

Channels == {"update", "connect", "disconnect", "error"}
Subscribers == {"s1", "s2"}
\* Callbacks that throw when called.
Throwing == {"s1"}

\* The engine's fields and the effects of the running operation as one record.
Cur ==
    [messages |-> messages, isStreaming |-> isStreaming, activeRunId |-> activeRunId,
     error |-> error, streamBuf |-> streamBuf, flushTimer |-> flushTimer,
     timers |-> timers,
     listeners |-> listeners, nextId |-> nextId, emitted |-> <<>>, netCalls |-> <<>>]

\* ---------------------------------------------------------------- emitters
\* The callbacks an emitter calls: each one in turn, a throw being caught.
\* A loop without the try/catch: the first throw ends it.
RECURSIVE callEachUntilThrow(_)
callEachUntilThrow(cbs) ==
    IF cbs = <<>> THEN <<>>
    ELSE IF Head(cbs) \in Throwing THEN <<Head(cbs)>>
         ELSE <<Head(cbs)>> \o callEachUntilThrow(Tail(cbs))

RECURSIVE callEach(_)
callEach(cbs) ==
    IF cbs = <<>> THEN <<>>
    ELSE <<Head(cbs)>> \o callEach(Tail(cbs))

\* What a callback reads from the engine's getters while it runs.
Seen(s) ==
    [messages |-> s.messages, isStreaming |-> s.isStreaming,
     activeRunId |-> s.activeRunId, error |-> s.error]

emit(s, ch, arg) ==
    [s EXCEPT !.emitted = Append(@, [ch |-> ch, arg |-> arg,
                                     called |-> callEach(s.listeners[ch]),
                                     seen |-> Seen(s)])]

emitUpdate(s) == emit(s, "update", NoErr)
emitConnect(s) == emit(s, "connect", NoErr)
emitDisconnect(s) == emit(s, "disconnect", NoErr)
emitError(s, e) == emit(s, "error", e)

call(s, method, arg) ==
    [s EXCEPT !.netCalls = Append(@, [method |-> method, arg |-> arg])]

\* ---------------------------------------------------------------- buffer
\* clearTimeout of the handle the engine holds.
clearTimeout(s) == [s EXCEPT !.timers = IF s.flushTimer = "pending" THEN @ - 1 ELSE @]

\* A scheduleFlush that sets a timeout whether or not one is pending.
scheduleFlushAlways(s) == [s EXCEPT !.flushTimer = "pending", !.timers = @ + 1]

scheduleFlush(s) ==
    IF s.flushTimer = "null"
    THEN [s EXCEPT !.flushTimer = "pending", !.timers = @ + 1]
    ELSE s

\* A streaming assistant message whose text so far looks like a silent reply.
SilentInProgress(m) == m.isStreaming /\ m.role = "assistant" /\ isSilentReply(m.content)

commitBuffer(buf) ==
    LET Keep(m) == ~SilentInProgress(m) IN SelectSeq(buf, Keep)

flushBuffer(s) ==
    LET s1 == [s EXCEPT !.flushTimer = "null"]
    IN  IF s1.streamBuf # None
        THEN emitUpdate([s1 EXCEPT !.messages = commitBuffer(s1.streamBuf[1])])
        ELSE s1

\* A flushImmediate that publishes the buffer and keeps it.
flushImmediateKeepsBuffer(s) ==
    LET s1 == IF s.flushTimer # "null"
              THEN [clearTimeout(s) EXCEPT !.flushTimer = "null"]
              ELSE s
    IN  IF s1.streamBuf # None
        THEN emitUpdate([s1 EXCEPT !.messages = commitBuffer(s1.streamBuf[1])])
        ELSE s1

flushImmediate(s) ==
    LET s1 == IF s.flushTimer # "null"
              THEN [clearTimeout(s) EXCEPT !.flushTimer = "null"]
              ELSE s
    IN  IF s1.streamBuf # None
        THEN emitUpdate([s1 EXCEPT !.messages = commitBuffer(s1.streamBuf[1]),
                                   !.streamBuf = None])
        ELSE s1

\* ---------------------------------------------------------------- chat events
\* A ChatEventPayload; message is None when absent, Some(content) otherwise.
Payload(runId, sessionKey, state, message, errorMessage) ==
    [runId |-> runId, sessionKey |-> sessionKey, state |-> state,
     message |-> message, errorMessage |-> errorMessage]

\* A handleDelta that publishes each delta as it arrives.
handleDeltaUnbuffered(s, runId, message) ==
    IF message = None THEN s
    ELSE
        LET buf == s.messages
            content == normalizeContent(message[1])
            existingIdx == findExisting(buf, runId, Len(buf))
            updated ==
                IF existingIdx > 0
                THEN [buf EXCEPT ![existingIdx] =
                        [@ EXCEPT !.content = content, !.isStreaming = TRUE]]
                ELSE Append(buf, UIMessage(s.nextId, "assistant", content,
                                           TRUE, FALSE, NoErr, runId))
        IN  emitUpdate(
                [s EXCEPT !.isStreaming = TRUE,
                          !.activeRunId = runId,
                          !.messages = commitBuffer(updated),
                          !.nextId = IF existingIdx > 0 THEN @ ELSE @ + 1])

handleDelta(s, runId, message) ==
    IF message = None THEN s
    ELSE
        LET buf == IF s.streamBuf = None THEN s.messages ELSE s.streamBuf[1]
            content == normalizeContent(message[1])
            existingIdx == findExisting(buf, runId, Len(buf))
            updated ==
                IF existingIdx > 0
                THEN [buf EXCEPT ![existingIdx] =
                        [@ EXCEPT !.content = content, !.isStreaming = TRUE]]
                ELSE Append(buf, UIMessage(s.nextId, "assistant", content,
                                           TRUE, FALSE, NoErr, runId))
        IN  scheduleFlush(
                [s EXCEPT !.isStreaming = TRUE,
                          !.activeRunId = runId,
                          !.streamBuf = Some(updated),
                          !.nextId = IF existingIdx > 0 THEN @ ELSE @ + 1])

\* A finish that marks nothing.
markFinishedNone(list, runId) == list

\* Every message of the run that is still streaming is marked finished.
markFinished(list, runId) ==
    [i \in DOMAIN list |->
        IF list[i].runId = runId /\ list[i].isStreaming
        THEN [list[i] EXCEPT !.isStreaming = FALSE]
        ELSE list[i]]

handleComplete(s, runId, message) ==
    LET s1 == flushImmediate(s)
        s2 == [s1 EXCEPT !.isStreaming = FALSE, !.activeRunId = NoRun]
    IN  IF message = None
        THEN emitUpdate([s2 EXCEPT !.messages = markFinished(@, runId)])
        ELSE
            LET content == normalizeContent(message[1])
                NotOfRun(m) == ~(m.runId = runId /\ m.role = "assistant")
                existingIdx == findExisting(s2.messages, runId, Len(s2.messages))
                finalMsg == UIMessage(
                    IF existingIdx > 0 THEN s2.messages[existingIdx].id ELSE s2.nextId,
                    "assistant", filterVisibleContent(content), FALSE, FALSE, NoErr, runId)
            IN  IF isSilentReply(content)
                THEN emitUpdate([s2 EXCEPT !.messages = SelectSeq(@, NotOfRun)])
                ELSE IF existingIdx > 0
                THEN emitUpdate([s2 EXCEPT !.messages = [@ EXCEPT ![existingIdx] = finalMsg]])
                ELSE emitUpdate([s2 EXCEPT !.messages = Append(@, finalMsg),
                                           !.nextId = @ + 1])

handleError(s, runId, errorMessage) ==
    LET s1 == flushImmediate(s)
        s2 == [s1 EXCEPT !.isStreaming = FALSE, !.activeRunId = NoRun,
                         !.error = errorMessage]
        existingIdx == findExisting(s2.messages, runId, Len(s2.messages))
        s3 == IF existingIdx > 0
              THEN [s2 EXCEPT !.messages = [@ EXCEPT ![existingIdx] =
                        [@ EXCEPT !.isStreaming = FALSE, !.isError = TRUE,
                                  !.errorMessage = errorMessage]]]
              ELSE [s2 EXCEPT !.messages = Append(@,
                        UIMessage(s2.nextId, "assistant", <<TextBlock(errorMessage)>>,
                                  FALSE, TRUE, errorMessage, runId)),
                              !.nextId = @ + 1]
    IN  emitError(emitUpdate(s3), s3.error)

\* An abort that drops what the run had streamed instead of finishing it.
handleAbortedDiscards(s, runId) ==
    LET s1 == flushImmediate(s)
        s2 == [s1 EXCEPT !.isStreaming = FALSE, !.activeRunId = NoRun]
        Finished(m) == ~(m.runId = runId /\ m.isStreaming)
    IN  emitUpdate([s2 EXCEPT !.messages = SelectSeq(@, Finished)])

handleAborted(s, runId) ==
    LET s1 == flushImmediate(s)
        s2 == [s1 EXCEPT !.isStreaming = FALSE, !.activeRunId = NoRun]
    IN  emitUpdate([s2 EXCEPT !.messages = markFinished(@, runId)])

DefaultErrorMessage == <<"A", "g", "e", "n", "t", " ", "e", "r", "r", "o", "r">>

\* A dispatch that does not look at the event's session.
handleChatEventAnySession(s, payload) ==
    IF payload.state = "delta"
    THEN handleDelta(s, payload.runId, payload.message)
    ELSE IF payload.state \in {"complete", "done", "final"}
    THEN handleComplete(s, payload.runId, payload.message)
    ELSE IF payload.state = "error"
    THEN handleError(s, payload.runId,
                     IF payload.errorMessage = NoErr THEN DefaultErrorMessage
                     ELSE payload.errorMessage)
    ELSE IF payload.state = "aborted"
    THEN handleAborted(s, payload.runId)
    ELSE IF payload.message # None
    THEN handleDelta(s, payload.runId, payload.message)
    ELSE s

handleChatEvent(s, payload) ==
    IF payload.sessionKey # OwnSession THEN s
    ELSE IF payload.state = "delta"
    THEN handleDelta(s, payload.runId, payload.message)
    ELSE IF payload.state \in {"complete", "done", "final"}
    THEN handleComplete(s, payload.runId, payload.message)
    ELSE IF payload.state = "error"
    THEN handleError(s, payload.runId,
                     IF payload.errorMessage = NoErr THEN DefaultErrorMessage
                     ELSE payload.errorMessage)
    ELSE IF payload.state = "aborted"
    THEN handleAborted(s, payload.runId)
    ELSE IF payload.message # None
    THEN handleDelta(s, payload.runId, payload.message)
    ELSE s

\* ---------------------------------------------------------------- actions
\* An attachment of the given type; its file name, mime type and data are
\* copied into the image block and the wire attachment and never read.
PendingAttachment(type) == [type |-> type]

RECURSIVE imageBlocks(_)
imageBlocks(attachments) ==
    IF attachments = <<>> THEN <<>>
    ELSE IF Head(attachments).type = "image"
         THEN <<Block("image", <<>>)>> \o imageBlocks(Tail(attachments))
         ELSE imageBlocks(Tail(attachments))

T_Empty == <<"E", "m", "p", "t", "y">>

\* send recording a blank text as an error.
sendBlankIsError(s, text, attachments) ==
    IF ~isConnected
    THEN emitError([s EXCEPT !.error = T_NotConnected], T_NotConnected)
    ELSE IF trim(text) = <<>> /\ attachments = <<>>
    THEN emitError([s EXCEPT !.error = T_Empty], T_Empty)
    ELSE
        LET contentBlocks ==
                imageBlocks(attachments)
                    \o (IF trim(text) # <<>> THEN <<TextBlock(text)>> ELSE <<>>)
            userMsg == UIMessage(s.nextId, "user", contentBlocks, FALSE, FALSE, NoErr, NoRun)
            s1 == emitUpdate([s EXCEPT !.error = NoErr,
                                       !.messages = Append(@, userMsg),
                                       !.nextId = @ + 1])
        IN  call(s1, "chatSend", text)

\* send testing the text for emptiness without trimming it.
sendUntrimmed(s, text, attachments) ==
    IF ~isConnected
    THEN emitError([s EXCEPT !.error = T_NotConnected], T_NotConnected)
    ELSE IF text = <<>> /\ attachments = <<>>
    THEN s
    ELSE
        LET contentBlocks ==
                imageBlocks(attachments)
                    \o (IF text # <<>> THEN <<TextBlock(text)>> ELSE <<>>)
            userMsg == UIMessage(s.nextId, "user", contentBlocks, FALSE, FALSE, NoErr, NoRun)
            s1 == emitUpdate([s EXCEPT !.error = NoErr,
                                       !.messages = Append(@, userMsg),
                                       !.nextId = @ + 1])
        IN  call(s1, "chatSend", text)

send(s, text, attachments) ==
    IF ~isConnected
    THEN emitError([s EXCEPT !.error = T_NotConnected], T_NotConnected)
    ELSE IF trim(text) = <<>> /\ attachments = <<>>
    THEN s
    ELSE
        LET contentBlocks ==
                imageBlocks(attachments)
                    \o (IF trim(text) # <<>> THEN <<TextBlock(text)>> ELSE <<>>)
            userMsg == UIMessage(s.nextId, "user", contentBlocks, FALSE, FALSE, NoErr, NoRun)
            s1 == emitUpdate([s EXCEPT !.error = NoErr,
                                       !.messages = Append(@, userMsg),
                                       !.nextId = @ + 1])
        IN  call(s1, "chatSend", text)

\* The continuation of send that leaves the streaming flag alone.
sendResolvedNoFlag(s, runId) ==
    LET placeholder == UIMessage(s.nextId, "assistant", <<>>, TRUE, FALSE, NoErr, runId)
    IN  emitUpdate([s EXCEPT !.activeRunId = runId,
                             !.messages = Append(@, placeholder),
                             !.nextId = @ + 1])

\* The continuation of send after chatSend resolved with runId.
sendResolved(s, runId) ==
    LET placeholder == UIMessage(s.nextId, "assistant", <<>>, TRUE, FALSE, NoErr, runId)
    IN  emitUpdate([s EXCEPT !.activeRunId = runId,
                             !.isStreaming = TRUE,
                             !.messages = Append(@, placeholder),
                             !.nextId = @ + 1])

\* A catch block that takes the user message back.
sendRejectedRollback(s, err) ==
    emitError([s EXCEPT !.error = err, !.isStreaming = FALSE,
                        !.messages = IF @ = <<>> THEN @ ELSE Take(@, Len(@) - 1)], err)

\* The catch block of send.
sendRejected(s, err) ==
    emitError([s EXCEPT !.error = err, !.isStreaming = FALSE], err)

\* An abort that ends the streaming itself, whether or not it is connected.
abortOptimistic(s) ==
    IF s.activeRunId = NoRun THEN s
    ELSE call([s EXCEPT !.isStreaming = FALSE, !.activeRunId = NoRun],
              "chatAbort", <<OwnSession, s.activeRunId>>)

abort(s) ==
    IF s.activeRunId = NoRun \/ ~isConnected THEN s
    ELSE call(s, "chatAbort", <<OwnSession, s.activeRunId>>)

abortRejected(s, err) == emitError([s EXCEPT !.error = err], err)

\* A clear that notifies before it resets the error.
clearNotifyFirst(s) ==
    LET s1 == emitUpdate([s EXCEPT !.messages = <<>>, !.isStreaming = FALSE,
                                   !.activeRunId = NoRun])
    IN  [s1 EXCEPT !.error = NoErr]

clear(s) ==
    emitUpdate([s EXCEPT !.messages = <<>>, !.isStreaming = FALSE,
                         !.activeRunId = NoRun, !.error = NoErr])

\* A destroy that leaves the flush timer running.
destroyKeepsTimer(s) == [s EXCEPT !.listeners = [ch \in Channels |-> <<>>]]

destroy(s) ==
    [(IF s.flushTimer # "null" THEN clearTimeout(s) ELSE s) EXCEPT
              !.flushTimer = IF @ # "null" THEN "cleared" ELSE @,
              !.listeners = [ch \in Channels |-> <<>>]]

InSeq(x, q) == \E i \in DOMAIN q : q[i] = x

on(s, event, callback) ==
    IF InSeq(callback, s.listeners[event]) THEN s
    ELSE [s EXCEPT !.listeners[event] = Append(@, callback)]

\* The function on returns.
off(s, event, callback) ==
    LET Other(cb) == cb # callback
    IN  [s EXCEPT !.listeners[event] = SelectSeq(@, Other)]

\* A callback that notifies but does not subscribe again.
onConnectionStateNoSubscribe(s, state) ==
    IF state = "connected" THEN emitConnect(s)
    ELSE IF state = "disconnected" THEN emitDisconnect(s)
    ELSE s

\* The callback the constructor gives to onConnectionStateChange.
onConnectionState(s, state) ==
    IF state = "connected" THEN call(emitConnect(s), "chatSubscribe", OwnSession)
    ELSE IF state = "disconnected" THEN emitDisconnect(s)
    ELSE s

CountCalls(calls, method) == Cardinality({i \in DOMAIN calls : calls[i].method = method})

\* The engine takes the fields of s; the promises its calls return are pending.
Apply(s, op, settledSend, settledAbort) ==
    /\ pendingAbort - settledAbort + CountCalls(s.netCalls, "chatAbort") <= MaxInflight
    /\ messages' = s.messages
    /\ isStreaming' = s.isStreaming
    /\ activeRunId' = s.activeRunId
    /\ error' = s.error
    /\ streamBuf' = s.streamBuf
    /\ flushTimer' = s.flushTimer
    /\ timers' = s.timers
    /\ listeners' = s.listeners
    /\ nextId' = s.nextId
    /\ emitted' = s.emitted
    /\ netCalls' = s.netCalls
    /\ pendingSend' = pendingSend - settledSend + CountCalls(s.netCalls, "chatSend")
    /\ pendingAbort' = pendingAbort - settledAbort + CountCalls(s.netCalls, "chatAbort")
    /\ lastOp' = op
    /\ UNCHANGED <<client, clientOp, idp, idpOp, modal>>

\* ---------------------------------------------------------------- inputs
Texts == {<<>>, <<" ">>, T_Hi}
NoAttachments == <<>>
AttachmentLists == {NoAttachments, <<PendingAttachment("file"), PendingAttachment("image")>>}

C_Hi == ArrayContent(<<TextBlock(T_Hi)>>)
C_Partial == ArrayContent(<<TextBlock(Take(T_NO_REPLY, 7))>>)
C_NoReply == ArrayContent(<<TextBlock(T_NO_REPLY)>>)
C_Tools ==
    ArrayContent(<<TextBlock(T_Hi), Block("toolCall", <<>>),
                   Block("toolResult", <<>>), Block("thinking", T_Hi)>>)

\* The chat events of the engine's session, for the given runs and contents.
OwnPayloads(runs, deltas, finals, errors) ==
    {Payload(r, OwnSession, "delta", m, NoErr) :
        r \in runs, m \in {None} \cup {Some(c) : c \in deltas}}
    \cup {Payload(r, OwnSession, st, m, NoErr) :
        r \in runs, st \in {"complete", "done", "final"},
        m \in {None} \cup {Some(c) : c \in finals}}
    \cup {Payload(r, OwnSession, "error", None, e) : r \in runs, e \in errors}
    \cup {Payload(r, OwnSession, "aborted", None, NoErr) : r \in runs}
    \cup {Payload(r, OwnSession, "started", m, NoErr) :
        r \in runs, m \in {None} \cup {Some(c) : c \in deltas}}

\* Chat events of another session, one of each state.
OtherPayloads ==
    {Payload("r1", "other-session", st, Some(C_Hi), NoErr) :
        st \in {"delta", "complete", "started"}}
    \cup {Payload("r1", "other-session", "error", None, T_Boom),
          Payload("r1", "other-session", "aborted", None, NoErr)}

Send(text, attachments) ==
    /\ Apply(send(Cur, text, attachments),
             [name |-> "send"], 0, 0)
    /\ UNCHANGED <<subscribed, isConnected>>

SendResolved(runId) ==
    /\ pendingSend > 0
    /\ Apply(sendResolved(Cur, runId), [name |-> "sendResolved", runId |-> runId], 1, 0)
    /\ UNCHANGED <<subscribed, isConnected>>

SendRejected(err) ==
    /\ pendingSend > 0
    /\ Apply(sendRejected(Cur, err), [name |-> "sendRejected", err |-> err], 1, 0)
    /\ UNCHANGED <<subscribed, isConnected>>

Abort ==
    /\ Apply(abort(Cur), [name |-> "abort"], 0, 0)
    /\ UNCHANGED <<subscribed, isConnected>>

AbortResolved ==
    /\ pendingAbort > 0
    /\ Apply(Cur, [name |-> "abortResolved"], 0, 1)
    /\ UNCHANGED <<subscribed, isConnected>>

AbortRejected(err) ==
    /\ pendingAbort > 0
    /\ Apply(abortRejected(Cur, err), [name |-> "abortRejected", err |-> err], 0, 1)
    /\ UNCHANGED <<subscribed, isConnected>>

Clear ==
    /\ Apply(clear(Cur),
             [name |-> "clear", cleared |-> {messages[i].id : i \in DOMAIN messages}], 0, 0)
    /\ UNCHANGED <<subscribed, isConnected>>

Destroy ==
    /\ Apply(destroy(Cur), [name |-> "destroy"], 0, 0)
    /\ subscribed' = FALSE
    /\ UNCHANGED isConnected

On(event, callback) ==
    /\ Apply(on(Cur, event, callback),
             [name |-> "on"], 0, 0)
    /\ UNCHANGED <<subscribed, isConnected>>

Off(event, callback) ==
    /\ Apply(off(Cur, event, callback),
             [name |-> "off"], 0, 0)
    /\ UNCHANGED <<subscribed, isConnected>>

\* The handler a chat event is dispatched to, its run, its message, and whether
\* the message's text is a silent reply.
OpOfEvent(payload) ==
    IF payload.sessionKey # OwnSession THEN [name |-> "ignoredEvent"]
    ELSE [name |-> IF payload.state = "error" THEN "handleError"
                   ELSE IF payload.state = "aborted" THEN "handleAborted"
                   ELSE IF payload.state \in {"complete", "done", "final"}
                   THEN "handleComplete"
                   ELSE "handleDelta",
          runId |-> payload.runId,
          message |-> payload.message,
          errorMessage |-> payload.errorMessage,
          hasMessage |-> payload.message # None,
          silent |-> payload.message # None
                     /\ isSilentReply(normalizeContent(payload.message[1]))]

\* The client delivers a chat event to the callbacks it holds.
ChatEvent(payload) ==
    /\ subscribed
    /\ Apply(handleChatEvent(Cur, payload),
             OpOfEvent(payload) @@ [timer |-> flushTimer], 0, 0)
    /\ UNCHANGED <<subscribed, isConnected>>

\* The client changes its connection state and tells the callbacks it holds.
ConnectionStateChange(state) ==
    /\ isConnected' = (state = "connected")
    /\ Apply(IF subscribed THEN onConnectionState(Cur, state) ELSE Cur,
             [name |-> "connectionState", state |-> state], 0, 0)
    /\ UNCHANGED subscribed

\* A timeout that is set expires: its callback runs flushBuffer.
TimerFire ==
    /\ timers > 0
    /\ Apply(flushBuffer([Cur EXCEPT !.timers = @ - 1]), [name |-> "flushBuffer"], 0, 0)
    /\ UNCHANGED <<subscribed, isConnected>>

\* The state the engine's constructor leaves, for a client connected or not.
EngineInit ==
    /\ isConnected \in BOOLEAN
    /\ messages = <<>>
    /\ isStreaming = FALSE
    /\ activeRunId = NoRun
    /\ error = NoErr
    /\ streamBuf = None
    /\ flushTimer = "null"
    /\ timers = 0
    /\ listeners = [ch \in Channels |-> <<>>]
    /\ subscribed = TRUE
    /\ pendingSend = 0
    /\ pendingAbort = 0
    /\ nextId = 1
    /\ lastOp = [name |-> "constructor"]
    /\ emitted = <<>>
    /\ netCalls = IF isConnected
                  THEN <<[method |-> "chatSubscribe", arg |-> OwnSession]>>
                  ELSE <<>>

\* ---------------------------------------------------------------- client
\* A new GatewayClient.
GatewayClient(autoReconnect) ==
    [state |-> "disconnected",      \* connectionState
     autoReconnect |-> autoReconnect,
     socket |-> "none",             \* "none", "opening", "open", or "closing":
                                    \* closed by the client, its close callback to come
     closedByClient |-> FALSE,      \* disconnect() was called since the last connect()
     handshake |-> FALSE,           \* the connect request is sent and not answered
     reconnectTimer |-> FALSE,      \* a reconnection timer is pending
     attempts |-> 0,                \* consecutive closures since the last acceptance
     delay |-> 0,                   \* the delay of the last reconnection timer
     connectCall |-> "none",        \* the promise of the last connect(): none, pending, resolved, rejected
     pending |-> {},                \* ids of the PendingRequests
     results |-> <<>>,              \* per request id: "pending", "resolved" or "rejected"
     issuedOn |-> <<>>,             \* per request id: the socket it was written to
     nextReq |-> 1,                 \* source of request ids
     sockets |-> 0]                 \* sockets opened so far

\* What a client operation did: how its promise stands, the frames it wrote to
\* the transport, the states it broadcast and the requests it failed.
ClientOp(name, outcome, err, wire, broadcast, failed) ==
    [name |-> name, outcome |-> outcome, error |-> err, wire |-> wire,
     broadcast |-> broadcast, failed |-> failed]

setState(c, state) == [c EXCEPT !.state = state]

\* A client that tells its state-change subscribers nothing.
BroadcastNone(c, d) == <<>>

\* The states a change from c to d broadcasts to the state-change subscribers.
Broadcast(c, d) == IF c.state = d.state THEN <<>> ELSE <<d.state>>

openSocket(c) ==
    [c EXCEPT !.socket = "opening", !.handshake = FALSE, !.sockets = @ + 1]

\* A client whose PendingRequests outlive what should fail them.
failNone(c, ids) == c

\* The PendingRequests of ids are removed and their promises rejected.
failPending(c, ids) ==
    [c EXCEPT !.pending = @ \ ids,
              !.results = [i \in DOMAIN @ |-> IF i \in ids THEN "rejected" ELSE @[i]]]

\* A connect that opens a socket whatever the state.
connectReopens(c) ==
    LET d == openSocket([setState(c, "connecting") EXCEPT
                            !.connectCall = "pending", !.closedByClient = FALSE])
    IN  [c |-> d, op |-> ClientOp("connect", "pending", "none", <<>>, Broadcast(c, d), {})]

connect(c) ==
    IF c.state \in {"connecting", "reconnecting"}
    THEN [c |-> c, op |-> ClientOp("connect", "rejected", "Already connecting", <<>>, <<>>, {})]
    ELSE LET d == openSocket([setState(c, "connecting") EXCEPT
                                 !.connectCall = "pending", !.closedByClient = FALSE])
         IN  [c |-> d, op |-> ClientOp("connect", "pending", "none", <<>>, Broadcast(c, d), {})]

\* The socket opens: the client sends its connect request.
onOpen(c) ==
    LET d == [c EXCEPT !.socket = "open", !.handshake = TRUE]
    IN  [c |-> d, op |-> ClientOp("onOpen", "none", "none", <<"connect">>, <<>>, {})]

\* The gateway accepts the connect request.
onAccepted(c) ==
    LET d == [setState(c, "connected") EXCEPT
                !.handshake = FALSE, !.attempts = 0,
                !.connectCall = IF @ = "pending" THEN "resolved" ELSE @]
    IN  [c |-> d, op |-> ClientOp("onAccepted", "none", "none", <<>>, Broadcast(c, d), {})]

\* The delay before the first reconnection attempt, and the most that jitter
\* adds to a delay.
BackoffBase == 2
MaxJitter == 1

\* A delay that does not depend on the number of failures.
backoffConstant(attempts, jitter) == BackoffBase + jitter

\* The delay before the attempt that follows the given number of consecutive
\* failures: it doubles with each failure, plus jitter.
backoffDelay(attempts, jitter) == BackoffBase * 2 ^ (attempts - 1) + jitter

\* A close callback that schedules a reconnection although the client
\* disconnected itself.
onCloseAlwaysReconnects(c, jitter) ==
    LET closed == [failPending(c, c.pending) EXCEPT
                        !.socket = "none", !.handshake = FALSE,
                        !.connectCall = IF @ = "pending" THEN "rejected" ELSE @]
        d == IF c.autoReconnect
             THEN [setState(closed, "reconnecting") EXCEPT
                        !.reconnectTimer = TRUE, !.attempts = @ + 1,
                        !.delay = backoffDelay(c.attempts + 1, jitter)]
             ELSE setState(closed, "disconnected")
    IN  [c |-> d,
         op |-> ClientOp("onClose", "none", "Connection closed", <<>>, Broadcast(c, d), c.pending)]

\* The close callback of the socket: every outstanding request is failed; a
\* closure the client did not ask for schedules a reconnection when
\* autoReconnect is enabled.
onClose(c, jitter) ==
    LET closed == [failPending(c, c.pending) EXCEPT
                        !.socket = "none", !.handshake = FALSE,
                        !.connectCall = IF @ = "pending" THEN "rejected" ELSE @]
        d == IF c.closedByClient
             THEN setState(closed, "disconnected")
             ELSE IF c.autoReconnect
             THEN [setState(closed, "reconnecting") EXCEPT
                        !.reconnectTimer = TRUE, !.attempts = @ + 1,
                        !.delay = backoffDelay(c.attempts + 1, jitter)]
             ELSE setState(closed, "disconnected")
    IN  [c |-> d,
         op |-> ClientOp("onClose", "none", "Connection closed", <<>>, Broadcast(c, d), c.pending)]

\* The reconnection timer expires.
onBackoffElapsed(c) ==
    LET d == openSocket([setState(c, "connecting") EXCEPT !.reconnectTimer = FALSE])
    IN  [c |-> d, op |-> ClientOp("onBackoffElapsed", "none", "none", <<>>, Broadcast(c, d), {})]

disconnect(c) ==
    LET d == [setState(failPending(c, c.pending), "disconnected") EXCEPT
                !.socket = IF @ = "none" THEN "none" ELSE "closing",
                !.closedByClient = TRUE,
                !.handshake = FALSE, !.reconnectTimer = FALSE,
                !.connectCall = IF @ = "pending" THEN "rejected" ELSE @]
    IN  [c |-> d,
         op |-> ClientOp("disconnect", "none", "Connection closed", <<>>, Broadcast(c, d), c.pending)]

\* A request that registers and writes without looking at the state.
requestUnchecked(c, method) ==
    LET d == [c EXCEPT !.pending = @ \cup {c.nextReq}, !.nextReq = @ + 1,
                       !.results = Append(@, "pending"),
                       !.issuedOn = Append(@, c.sockets)]
    IN  [c |-> d,
         op |-> ClientOp("request", "pending", "none",
                         <<[id |-> c.nextReq, method |-> method]>>, <<>>, {})]

request(c, method) ==
    IF c.state # "connected"
    THEN [c |-> c, op |-> ClientOp("request", "rejected", "Not connected", <<>>, <<>>, {})]
    ELSE LET d == [c EXCEPT !.pending = @ \cup {c.nextReq}, !.nextReq = @ + 1,
                            !.results = Append(@, "pending"),
                            !.issuedOn = Append(@, c.sockets)]
         IN  [c |-> d,
              op |-> ClientOp("request", "pending", "none",
                              <<[id |-> c.nextReq, method |-> method]>>, <<>>, {})]

modelsList(c) == request(c, "models.list")

\* A response handler that settles the promise of its id whether or not a
\* PendingRequest is registered for it.
onResponseUnmatched(c, id) ==
    [c |-> [c EXCEPT !.pending = @ \ {id}, !.results[id] = "resolved"],
     op |-> ClientOp("onResponse", "resolved", "none", <<>>, <<>>, {}) @@ [id |-> id]]

\* A response frame for request id arrives: it resolves the PendingRequest of
\* that id and is dropped when there is none.
onResponse(c, id) ==
    IF id \in c.pending
    THEN [c |-> [c EXCEPT !.pending = @ \ {id}, !.results[id] = "resolved"],
          op |-> ClientOp("onResponse", "resolved", "none", <<>>, <<>>, {}) @@ [id |-> id]]
    ELSE [c |-> c,
          op |-> ClientOp("onResponse", "ignored", "none", <<>>, <<>>, {}) @@ [id |-> id]]

\* A response frame that carries an error: the PendingRequest of its id is
\* removed and its promise rejected with the gateway's error.
onErrorResponse(c, id) ==
    IF id \in c.pending
    THEN [c |-> failPending(c, {id}),
          op |-> ClientOp("onErrorResponse", "rejected", "GatewayError", <<>>, <<>>, {id})
                    @@ [id |-> id]]
    ELSE [c |-> c,
          op |-> ClientOp("onErrorResponse", "ignored", "none", <<>>, <<>>, {}) @@ [id |-> id]]

\* The timeout of a request fires: its PendingRequest is failed, and nothing
\* happens when the request is settled already.
onTimeout(c, id) ==
    IF id \in c.pending
    THEN [c |-> failPending(c, {id}),
          op |-> ClientOp("onTimeout", "rejected", "Request timeout", <<>>, <<>>, {id})
                    @@ [id |-> id]]
    ELSE [c |-> c,
          op |-> ClientOp("onTimeout", "ignored", "none", <<>>, <<>>, {}) @@ [id |-> id]]

\* The client takes the fields of r.c; the engine is left alone.
ClientApply(r) ==
    /\ client' = r.c
    /\ clientOp' = r.op
    /\ UNCHANGED <<messages, isStreaming, activeRunId, error, streamBuf, flushTimer,
                   timers, listeners, subscribed, isConnected, pendingSend, pendingAbort,
                   nextId, lastOp, emitted, netCalls, idp, idpOp, modal>>

\* connect() is called once the close callback of a socket the client closed
\* has run.
Connect ==
    /\ client.state \in {"connecting", "reconnecting"} \/ client.sockets < MaxSockets
    /\ client.socket # "closing"
    /\ ClientApply(connect(client))

SocketOpens ==
    /\ client.socket = "opening"
    /\ ClientApply(onOpen(client))

Accepted ==
    /\ client.socket = "open"
    /\ client.handshake
    /\ ClientApply(onAccepted(client))

\* The transport reports the closure of the socket, asked for or not.
SocketCloses ==
    /\ client.socket # "none"
    /\ \E jitter \in 0..MaxJitter : ClientApply(onClose(client, jitter))

BackoffElapses ==
    /\ client.reconnectTimer
    /\ client.sockets < MaxSockets
    /\ ClientApply(onBackoffElapsed(client))

Disconnect == ClientApply(disconnect(client))

Request(method) ==
    /\ client.nextReq <= MaxRequests
    /\ ClientApply(request(client, method))

ModelsList ==
    /\ client.nextReq <= MaxRequests
    /\ ClientApply(modelsList(client))

\* The gateway answers a request written to this or to an earlier socket.
Response ==
    /\ client.socket = "open"
    /\ \E id \in 1..(client.nextReq - 1) : ClientApply(onResponse(client, id))

ErrorResponse ==
    /\ client.socket = "open"
    /\ \E id \in 1..(client.nextReq - 1) : ClientApply(onErrorResponse(client, id))

RequestTimeout ==
    \E id \in client.pending : ClientApply(onTimeout(client, id))

\* The timeout of a request that is settled fires all the same.
LateTimeout ==
    \E id \in (1..(client.nextReq - 1)) \ client.pending : ClientApply(onTimeout(client, id))

\* ---------------------------------------------------------------- identity
\* The callers that may have a loadOrCreateIdentityAsync in flight.
Callers == {"a", "b"}

\* A call that is not running.
IdleCall == [pc |-> "idle", publicRaw |-> None, privateKey |-> None, identity |-> None]

\* The identity module after loading: whether expo-secure-store was found,
\* the regular storage under its two keys, the secure store under its two
\* keys, the source of fresh key pairs and the calls in flight. first is the
\* identity the first call since the start of the process returned.
IdentityProvider(hasSecureStore, stored) ==
    [SecureStore |-> hasSecureStore,
     storage |-> [identity |-> stored, public |-> None],
     secure |-> [private |-> None, public |-> None],
     nextKey |-> 1,
     calls |-> [p \in Callers |-> IdleCall],
     first |-> None]

IdentityOp(name, outcome, result) == [name |-> name, outcome |-> outcome, result |-> result]

\* String(n) for a number n that is a natural.
Digits == <<"0", "1", "2", "3", "4", "5", "6", "7", "8", "9">>
RECURSIVE NumberToString(_)
NumberToString(n) ==
    IF n < 10 THEN Digits[n + 1]
    ELSE NumberToString(n \div 10) \o Digits[(n % 10) + 1]

\* Array.prototype.join
RECURSIVE join(_, _)
join(parts, sep) ==
    IF parts = <<>> THEN ""
    ELSE IF Len(parts) = 1 THEN parts[1]
    ELSE parts[1] \o sep \o join(Tail(parts), sep)

\* An optional string in a condition: undefined and "" count as false.
Truthy(opt) == opt # None /\ opt[1] # ""

\* A payload that is never of version v2.
buildSignaturePayloadV1(params) ==
    join(<<"v1", params.deviceId, params.clientId, params.clientMode, params.role,
           join(params.scopes, ","), NumberToString(params.signedAtMs),
           IF params.authToken = None THEN "" ELSE params.authToken[1]>>, "|")

buildSignaturePayload(params) ==
    LET version == IF Truthy(params.nonce) THEN "v2" ELSE "v1"
        parts == <<version, params.deviceId, params.clientId, params.clientMode,
                   params.role, join(params.scopes, ","),
                   NumberToString(params.signedAtMs),
                   IF params.authToken = None THEN "" ELSE params.authToken[1]>>
    IN  join(IF Truthy(params.nonce) THEN Append(parts, params.nonce[1]) ELSE parts, "|")

\* An identity operation leaves the engine and the client alone.
IdentityApply(d, op) ==
    /\ idp' = d
    /\ idpOp' = op
    /\ UNCHANGED <<messages, isStreaming, activeRunId, error, streamBuf, flushTimer,
                   timers, listeners, subscribed, isConnected, pendingSend, pendingAbort,
                   nextId, lastOp, emitted, netCalls, client, clientOp, modal>>

\* ---------------------------------------------------------------- key pairs
\* The k-th secret key that randomSecretKey returns, the public key of a secret
\* key, and the hex digest of a public key.
randomSecretKey(k) == <<"priv", k>>
getPublicKey(privateKey) == <<"pub", privateKey[2]>>
sha256Hex(publicKey) == <<"sha256", publicKey[2]>>

\* generateIdentity with the k-th secret key, at a time that is positive.
generateIdentity(k) ==
    [deviceId |-> sha256Hex(getPublicKey(randomSecretKey(k))),
     publicKey |-> getPublicKey(randomSecretKey(k)),
     privateKey |-> randomSecretKey(k),
     createdAtMs |-> k]

\* JSON.stringify of a record, and a stored string that JSON.parse rejects.
Json(v) == [parses |-> TRUE, json |-> v]
Garbage == [parses |-> FALSE, json |-> [text |-> "garbage"]]

\* The public fields of an identity, as saveIdentityAsync stores them.
PublicFields(identity) ==
    [deviceId |-> identity.deviceId, publicKey |-> identity.publicKey,
     createdAtMs |-> identity.createdAtMs]

\* A stored identity whose createdAtMs is 0.
Unstamped == [generateIdentity(1) EXCEPT !.createdAtMs = 0]

\* The stored string parses to a record whose fields are all truthy.
ValidStored(stored) ==
    /\ stored # None
    /\ stored[1].parses
    /\ stored[1].json.createdAtMs # 0

\* saveIdentity: best effort, a failing storage.set is swallowed.
saveIdentity(d, identity, setFails) ==
    IF setFails THEN d ELSE [d EXCEPT !.storage.identity = Some(Json(identity))]

loadOrCreateIdentity(d, setFails) ==
    IF ValidStored(d.storage.identity)
    THEN LET identity == d.storage.identity[1].json
         IN  [d |-> [d EXCEPT !.first = IF @ = None THEN Some(identity) ELSE @],
              identity |-> identity]
    ELSE LET identity == generateIdentity(d.nextKey)
             saved == saveIdentity([d EXCEPT !.nextKey = @ + 1], identity, setFails)
         IN  [d |-> [saved EXCEPT !.first = IF @ = None THEN Some(identity) ELSE @],
              identity |-> identity]

\* loadOrCreateIdentityAsync from the test of the loaded values on: the stored
\* identity is returned, the cache filled when it is empty, or a key pair is
\* generated and saveIdentityAsync starts with the write of the private key.
decide(d, p, setFails) ==
    LET c == d.calls[p] IN
    IF c.publicRaw # None /\ c.privateKey # None /\ ValidStored(c.publicRaw)
    THEN LET pub == c.publicRaw[1].json
             identity == [deviceId |-> pub.deviceId, publicKey |-> pub.publicKey,
                          privateKey |-> c.privateKey[1],
                          createdAtMs |-> pub.createdAtMs]
             filled == IF d.storage.public = None /\ ~setFails
                       THEN [d EXCEPT !.storage.public = c.publicRaw]
                       ELSE d
         IN  [d |-> [filled EXCEPT !.calls[p] = IdleCall],
              op |-> IdentityOp("loadOrCreateIdentityAsync", "returned", Some(identity))]
    ELSE [d |-> [d EXCEPT !.nextKey = @ + 1,
                          !.calls[p].pc = "savePrivate",
                          !.calls[p].identity = Some(generateIdentity(d.nextKey))],
          op |-> IdentityOp("generateIdentity", "pending", None)]

\* The call starts: without SecureStore it is loadOrCreateIdentity; with it
\* the cached public fields are read and the private key is asked for.
start(d, p, setFails) ==
    IF ~d.SecureStore
    THEN LET r == loadOrCreateIdentity(d, setFails)
         IN  [d |-> r.d,
              op |-> IdentityOp("loadOrCreateIdentity", "returned", Some(r.identity))]
    ELSE [d |-> [d EXCEPT !.calls[p].pc = "getPrivate",
                          !.calls[p].publicRaw = d.storage.public],
          op |-> IdentityOp("start", "pending", None)]

\* The read of the private key ends; a failed read is caught and leads to a
\* new key pair.
getPrivate(d, p, readFails, setFails) ==
    IF readFails
    THEN decide([d EXCEPT !.calls[p].publicRaw = None], p, setFails)
    ELSE LET e == [d EXCEPT !.calls[p].privateKey = d.secure.private] IN
         IF e.calls[p].publicRaw = None /\ e.calls[p].privateKey # None
         THEN [d |-> [e EXCEPT !.calls[p].pc = "getPublic"],
               op |-> IdentityOp("getPrivate", "pending", None)]
         ELSE decide(e, p, setFails)

\* The read of the public fields from the secure store ends.
getPublic(d, p, readFails, setFails) ==
    IF readFails
    THEN decide([d EXCEPT !.calls[p].publicRaw = None], p, setFails)
    ELSE decide([d EXCEPT !.calls[p].publicRaw = d.secure.public], p, setFails)

\* The write of the private key ends; a failed write rejects the call.
savePrivate(d, p, writeFails) ==
    IF writeFails
    THEN [d |-> [d EXCEPT !.calls[p] = IdleCall],
          op |-> IdentityOp("loadOrCreateIdentityAsync", "rejected", None)]
    ELSE [d |-> [d EXCEPT !.secure.private = Some(d.calls[p].identity[1].privateKey),
                          !.calls[p].pc = "savePublic"],
          op |-> IdentityOp("savePrivate", "pending", None)]

\* The write of the public fields to the secure store ends; then the cache
\* is written, best effort, and the call returns the new identity.
savePublic(d, p, writeFails, setFails) ==
    LET publicJson == Some(Json(PublicFields(d.calls[p].identity[1]))) IN
    IF writeFails
    THEN [d |-> [d EXCEPT !.calls[p] = IdleCall],
          op |-> IdentityOp("loadOrCreateIdentityAsync", "rejected", None)]
    ELSE [d |-> [d EXCEPT !.secure.public = publicJson,
                          !.storage.public = IF setFails THEN @ ELSE publicJson,
                          !.calls[p] = IdleCall],
          op |-> IdentityOp("loadOrCreateIdentityAsync", "returned", d.calls[p].identity)]

\* The process starts again: the calls in flight are gone, and so is the
\* regular storage when it is the in-memory one.
restart(d, inMemory) ==
    [d EXCEPT !.calls = [p \in Callers |-> IdleCall],
              !.first = None,
              !.storage = IF inMemory THEN [identity |-> None, public |-> None] ELSE @]

\* At most MaxKeys key pairs are generated.
IdentityStep(r) ==
    /\ r.d.nextKey <= MaxKeys + 1
    /\ IdentityApply(r.d, r.op)

LoadOrCreateIdentity ==
    \E setFails \in BOOLEAN :
        LET r == loadOrCreateIdentity(idp, setFails)
        IN  IdentityStep([d |-> r.d,
                          op |-> IdentityOp("loadOrCreateIdentity", "returned",
                                            Some(r.identity))])

LoadOrCreateIdentityAsync(p) ==
    /\ idp.calls[p].pc = "idle"
    /\ \E setFails \in BOOLEAN : IdentityStep(start(idp, p, setFails))

GetPrivate(p) ==
    /\ idp.calls[p].pc = "getPrivate"
    /\ \E readFails \in BOOLEAN, setFails \in BOOLEAN :
            IdentityStep(getPrivate(idp, p, readFails, setFails))

GetPublic(p) ==
    /\ idp.calls[p].pc = "getPublic"
    /\ \E readFails \in BOOLEAN, setFails \in BOOLEAN :
            IdentityStep(getPublic(idp, p, readFails, setFails))

SavePrivate(p) ==
    /\ idp.calls[p].pc = "savePrivate"
    /\ \E writeFails \in BOOLEAN : IdentityStep(savePrivate(idp, p, writeFails))

SavePublic(p) ==
    /\ idp.calls[p].pc = "savePublic"
    /\ \E writeFails \in BOOLEAN, setFails \in BOOLEAN :
            IdentityStep(savePublic(idp, p, writeFails, setFails))

Restart ==
    \E inMemory \in BOOLEAN :
        IdentityApply(restart(idp, inMemory), IdentityOp("restart", "none", None))

PayloadParams ==
    [nonce : {None, Some(""), Some("nonce-xyz")},
     deviceId : {"device-123", ""},
     clientId : {"test-client"},
     clientMode : {"ui"},
     role : {"operator"},
     scopes : {<<>>, <<"read">>, <<"read", "write">>},
     signedAtMs : {0, 7, 1234567890},
     authToken : {None, Some(""), Some("token-abc")}]

BuildSignaturePayload(params) ==
    IdentityApply(idp, [name |-> "buildSignaturePayload", params |-> params,
                        result |-> buildSignaturePayload(params)])

IdentityInit ==
    /\ idp = IdentityProvider(TRUE, None)
    /\ idpOp = IdentityOp("load", "none", None)

\* ---------------------------------------------------------------- modal
\* A ChatModal that is not shown.
ChatModal == [visible |-> FALSE]

ModalInit == modal = ChatModal

\* client.isConnected
clientIsConnected(c) == c.state = "connected"

\* The effect that runs when the modal becomes visible: it connects unless
\* the client is connected or connecting.
openEffect(c) ==
    IF c.state # "connected" /\ c.state # "connecting"
    THEN connect(c)
    ELSE [c |-> c, op |-> ClientOp("open", "none", "none", <<>>, <<>>, {})]

\* handleClose: the client is disconnected when it is connected.
handleClose(c) ==
    IF clientIsConnected(c)
    THEN disconnect(c)
    ELSE [c |-> c, op |-> ClientOp("handleClose", "none", "none", <<>>, <<>>, {})]

\* The modal and the client after a handler of the modal.
ModalApply(r, visible) ==
    /\ modal' = [visible |-> visible]
    /\ client' = r.c
    /\ clientOp' = r.op
    /\ UNCHANGED <<messages, isStreaming, activeRunId, error, streamBuf, flushTimer,
                   timers, listeners, subscribed, isConnected, pendingSend, pendingAbort,
                   nextId, lastOp, emitted, netCalls, idp, idpOp>>

\* The host shows the modal.
OpenModal ==
    /\ ~modal.visible
    /\ client.state \in {"connected", "connecting", "reconnecting"}
            \/ (client.sockets < MaxSockets /\ client.socket # "closing")
    /\ ModalApply(openEffect(client), TRUE)

\* The user closes the modal.
HandleClose ==
    /\ modal.visible
    /\ ModalApply(handleClose(client), FALSE)

\* The state the constructors leave: the engine's, and a client that
\* reconnects by itself.
Init ==
    /\ EngineInit
    /\ IdentityInit
    /\ ModalInit
    /\ client = GatewayClient(TRUE)
    /\ clientOp = ClientOp("constructor", "none", "none", <<>>, <<>>, {})

\* The steps of an engine whose client delivers the given events and that
\* creates at most maxIds messages.
EngineNext(runs, attachmentLists, payloads, maxIds) ==
    \/ \E text \in Texts, attachments \in attachmentLists :
            Send(text, attachments) /\ nextId' <= maxIds + 1
    \/ \E runId \in runs : SendResolved(runId) /\ nextId' <= maxIds + 1
    \/ SendRejected(T_Network)
    \/ Clear
    \/ \E payload \in payloads : ChatEvent(payload) /\ nextId' <= maxIds + 1
    \/ TimerFire

SpecPayloads ==
    OwnPayloads({"r1"}, {C_Hi, C_Partial}, {C_NoReply, C_Tools}, {T_Boom})
        \cup OtherPayloads

Next == EngineNext({"r1"}, {NoAttachments}, SpecPayloads, MaxIds)

Spec == Init /\ [][Next]_vars

\* The engine with subscribers on its update and error channels, under fewer
\* chat events.
SubsPayloads ==
    {Payload("r1", OwnSession, "delta", Some(C_Hi), NoErr),
     Payload("r1", OwnSession, "complete", None, NoErr),
     Payload("r1", OwnSession, "error", None, T_Boom),
     Payload("r1", OwnSession, "error", None, NoErr),
     Payload("r1", OwnSession, "aborted", None, NoErr)}
    \cup OtherPayloads

Subscriptions == {<<"error", "s1">>, <<"error", "s2">>, <<"update", "s1">>}

SubsNext ==
    \/ EngineNext({"r1"}, {NoAttachments}, SubsPayloads, MaxSubsIds)
    \/ \E sub \in Subscriptions : On(sub[1], sub[2])
    \/ \E sub \in Subscriptions : Off(sub[1], sub[2])
    \/ Destroy

SpecSubs == Init /\ [][SubsNext]_vars

\* The engine under connection changes, aborts and destroy, with subscribers
\* on its four channels, the one that throws subscribing first; messages come
\* from chat events only.
ConnPayloads ==
    {Payload("r1", OwnSession, "delta", Some(C_Hi), NoErr),
     Payload("r1", OwnSession, "error", None, T_Boom),
     Payload("r1", OwnSession, "aborted", None, NoErr)}

ConnNext ==
    \/ \E payload \in ConnPayloads : ChatEvent(payload) /\ nextId' <= MaxConnIds + 1
    \/ TimerFire
    \/ Clear
    \/ Abort
    \/ AbortResolved
    \/ AbortRejected(T_Network)
    \/ \E state \in ConnectionStates : ConnectionStateChange(state)
    \/ \E event \in Channels, callback \in Subscribers :
            /\ callback = "s2" => InSeq("s1", listeners[event])
            /\ On(event, callback)
    \/ Destroy

SpecConn == Init /\ [][ConnNext]_vars

\* A GatewayClient on its own, reconnecting by itself or not. connect() is
\* not called on a connected client.
ClientInit ==
    /\ EngineInit
    /\ IdentityInit
    /\ ModalInit
    /\ ~isConnected
    /\ client \in {GatewayClient(a) : a \in BOOLEAN}
    /\ clientOp = ClientOp("constructor", "none", "none", <<>>, <<>>, {})

ClientNext ==
    \/ client.state # "connected" /\ Connect
    \/ SocketOpens
    \/ Accepted
    \/ SocketCloses
    \/ BackoffElapses
    \/ Disconnect
    \/ \E method \in {"test.method", "chat.send"} : Request(method)
    \/ ModelsList
    \/ Response
    \/ RequestTimeout

SpecClient == ClientInit /\ [][ClientNext]_vars

\* The same client with the gateway's error responses and late timeouts; the
\* timeout of a pending request fires in the end.
RequestsNext ==
    \/ ClientNext
    \/ ErrorResponse
    \/ LateTimeout

SpecRequests == ClientInit /\ [][RequestsNext]_vars /\ WF_vars(RequestTimeout)

\* A GatewayClient whose gateway accepts in the end: the last socket the
\* client may open does not close unless the client closes it. The timer, the
\* opening of the socket and the gateway's answer are not delayed for ever.
ReconnectNext ==
    \/ client.state # "connected" /\ Connect
    \/ SocketOpens
    \/ Accepted
    \/ (client.socket = "closing" \/ client.sockets < MaxSockets) /\ SocketCloses
    \/ BackoffElapses
    \/ Disconnect
    \/ Request("chat.send")
    \/ Response

SpecReconnect ==
    /\ ClientInit
    /\ [][ReconnectNext]_vars
    /\ WF_vars(BackoffElapses)
    /\ WF_vars(SocketOpens)
    /\ WF_vars(Accepted)

\* buildSignaturePayload applied to each of the parameter records.
PayloadNext == \E params \in PayloadParams : BuildSignaturePayload(params)

PayloadStart == Init /\ ~isConnected

SpecPayload == PayloadStart /\ [][PayloadNext]_vars

\* The identity module, with or without expo-secure-store, over a regular
\* storage that holds nothing, a string that does not parse or an identity
\* without its time; reads and writes of the stores may fail.
StoredInputs == {None, Some(Garbage), Some(Json(Unstamped))}

IdentityStart ==
    /\ EngineInit
    /\ ~isConnected
    /\ client = GatewayClient(TRUE)
    /\ clientOp = ClientOp("constructor", "none", "none", <<>>, <<>>, {})
    /\ idp \in {IdentityProvider(h, stored) : h \in BOOLEAN, stored \in StoredInputs}
    /\ idpOp = IdentityOp("load", "none", None)
    /\ ModalInit

IdentityNext ==
    \/ LoadOrCreateIdentity
    \/ \E p \in Callers : LoadOrCreateIdentityAsync(p)
    \/ \E p \in Callers : GetPrivate(p)
    \/ \E p \in Callers : GetPublic(p)
    \/ \E p \in Callers : SavePrivate(p)
    \/ \E p \in Callers : SavePublic(p)
    \/ Restart

SpecIdentity == IdentityStart /\ [][IdentityNext]_vars

\* The ChatModal over the client that createChat makes, which reconnects by
\* itself, opened and closed by the user while requests are made.
ModalNext ==
    \/ OpenModal
    \/ HandleClose
    \/ SocketOpens
    \/ Accepted
    \/ SocketCloses
    \/ BackoffElapses
    \/ Request("chat.send")
    \/ Response

ModalStart == Init /\ ~isConnected

SpecModal == ModalStart /\ [][ModalNext]_vars

\* The engine under the events of two runs that may overlap: deltas whose
\* content is an array or a string, and the terminal events; messages come
\* from chat events only.
C_Boom == StringContent(T_Boom)

RunsPayloads ==
    {Payload(r, OwnSession, "delta", Some(c), NoErr) :
        r \in {"r1", "r2"}, c \in {C_Hi, C_Boom}}
    \cup {Payload(r, OwnSession, "complete", m, NoErr) :
        r \in {"r1", "r2"}, m \in {None, Some(C_Hi)}}
    \cup {Payload(r, OwnSession, "error", None, T_Boom) : r \in {"r1", "r2"}}
    \cup {Payload(r, OwnSession, "aborted", None, NoErr) : r \in {"r1", "r2"}}

RunsNext ==
    \/ \E payload \in RunsPayloads : ChatEvent(payload) /\ nextId' <= MaxRunIds + 1
    \/ TimerFire
    \/ Clear

RunsStart == Init /\ isConnected

SpecRuns == RunsStart /\ [][RunsNext]_vars

\* One send on a connected client and the chat events of the run it starts,
\* which may be processed before or after chatSend resolves.
SendPayloads == OwnPayloads({"r1"}, {C_Hi}, {C_Tools}, {T_Boom})

SendNext ==
    \/ nextId = 1 /\ Send(T_Hi, NoAttachments)
    \/ SendResolved("r1")
    \/ \E payload \in SendPayloads :
            pendingSend + Len(messages) > 0 /\ ChatEvent(payload) /\ nextId' <= MaxIds + 1
    \/ TimerFire

SendStart == Init /\ isConnected

SpecSend == SendStart /\ [][SendNext]_vars

\* isSilentReply applied to content lists: a text block holding a beginning of
\* a sentinel, bare or with a space or a letter before or after it, and the
\* same text cut in two text blocks with a thinking block between them.
Stems ==
    {Take(T_NO_REPLY, n) : n \in 0..Len(T_NO_REPLY)}
        \cup {Take(T_HEARTBEAT_OK, n) : n \in 8..Len(T_HEARTBEAT_OK)}

Affixes == {<<>>, <<" ">>, <<"x">>}

SilentTexts == {pre \o stem \o post : pre \in Affixes, stem \in Stems, post \in Affixes}

SilentInputs ==
    {<<TextBlock(t)>> : t \in SilentTexts}
        \cup {<<TextBlock(Take(t, 2)), Block("thinking", T_NO_REPLY),
                TextBlock(SubSeq(t, 3, Len(t)))>> : t \in {u \in SilentTexts : Len(u) >= 2}}
        \cup {<<>>, <<Block("thinking", T_NO_REPLY)>>, <<Block("toolCall", T_NO_REPLY)>>}

IsSilentReply(content) ==
    /\ Apply(Cur, [name |-> "isSilentReply", content |-> content,
                   result |-> isSilentReply(content)], 0, 0)
    /\ UNCHANGED <<subscribed, isConnected>>

SilentNext == \E content \in SilentInputs : IsSilentReply(content)

SilentStart == Init /\ ~isConnected

SpecSilent == SilentStart /\ [][SilentNext]_vars

\* ---------------------------------------------------------------- properties
Range(q) == {q[i] : i \in DOMAIN q}

\* The notifications of q without what their callbacks saw.
Calls(q) == [i \in DOMAIN q |-> [ch |-> q[i].ch, arg |-> q[i].arg, called |-> q[i].called]]

\* C1: a send of non-blank text without attachments on a connected client
\* appends a user message holding the text and calls chatSend; when chatSend
\* resolves with a runId the send appends an empty assistant placeholder that is
\* streaming and tagged with the runId, and the engine is streaming.
C1_SendAppendsUserThenPlaceholder ==
    [][/\ lastOp'.name = "send" => \A text \in Texts :
            (isConnected /\ trim(text) # <<>> /\ Send(text, NoAttachments)) =>
                /\ messages' = Append(messages,
                        UIMessage(nextId, "user", <<TextBlock(text)>>,
                                  FALSE, FALSE, NoErr, NoRun))
                /\ netCalls' = <<[method |-> "chatSend", arg |-> text]>>
       /\ lastOp'.name = "sendResolved" =>
                /\ messages' = Append(messages,
                        UIMessage(nextId, "assistant", <<>>,
                                  TRUE, FALSE, NoErr, lastOp'.runId))
                /\ isStreaming'
                /\ activeRunId' = lastOp'.runId]_vars

C1_Witness ==
    /\ lastOp.name = "sendResolved"
    /\ messages = <<UIMessage(1, "user", <<TextBlock(T_Hi)>>, FALSE, FALSE, NoErr, NoRun),
                    UIMessage(2, "assistant", <<>>, TRUE, FALSE, NoErr, "r1")>>
    /\ isStreaming
    /\ activeRunId = "r1"

\* C2: a send of empty or whitespace-only text without attachments on a
\* connected client changes nothing: the list, the streaming flag, the active
\* run, the error, the buffer and the timer stay, and chatSend is not called.
C2_BlankSendChangesNothing ==
    [][lastOp'.name = "send" => \A text \in Texts :
            (isConnected /\ trim(text) = <<>> /\ Send(text, NoAttachments)) =>
                /\ UNCHANGED <<messages, isStreaming, activeRunId, error, streamBuf,
                               flushTimer, listeners, pendingSend, nextId>>
                /\ netCalls' = <<>>
                /\ emitted' = <<>>]_vars

C2_Witness ==
    /\ lastOp.name = "send"
    /\ isConnected
    /\ netCalls = <<>>
    /\ emitted = <<>>
    /\ error # NoErr
    /\ messages # <<>>
    /\ isStreaming

\* C3: a send on a client that is not connected calls nothing on the client,
\* adds no message, records the error "Not connected" and hands it to every
\* subscriber of the error channel.
C3_SendNotConnected ==
    [][lastOp'.name = "send" => \A text \in Texts, attachments \in AttachmentLists :
            (~isConnected /\ Send(text, attachments)) =>
                /\ netCalls' = <<>>
                /\ pendingSend' = pendingSend
                /\ messages' = messages
                /\ error' = T_NotConnected
                /\ Calls(emitted') = <<[ch |-> "error", arg |-> T_NotConnected,
                                 called |-> listeners["error"]]>>]_vars

C3_Witness ==
    /\ lastOp.name = "send"
    /\ ~isConnected
    /\ error = T_NotConnected
    /\ messages # <<>>
    /\ emitted # <<>>
    /\ emitted[1].called = <<"s1", "s2">>

\* C4: when chatSend rejects, the list is left as it is (the user message is
\* not taken back and no placeholder is added), the error is the rejection,
\* the error channel is notified once, each subscriber once, and the engine is
\* not streaming.
C4_SendRejected ==
    [][lastOp'.name = "sendRejected" =>
            /\ messages' = messages
            /\ error' = lastOp'.err
            /\ ~isStreaming'
            /\ activeRunId' = activeRunId
            /\ Calls(emitted') = <<[ch |-> "error", arg |-> lastOp'.err,
                             called |-> listeners["error"]]>>]_vars

C4_Witness ==
    /\ lastOp.name = "sendRejected"
    /\ messages = <<UIMessage(1, "user", <<TextBlock(T_Hi)>>, FALSE, FALSE, NoErr, NoRun)>>
    /\ error = T_Network
    /\ ~isStreaming
    /\ Len(emitted) = 1
    /\ emitted[1].called = <<"s2">>

\* The list a flush publishes: the staging buffer when one is set, the public
\* list otherwise.
Staged == IF streamBuf = None THEN messages ELSE streamBuf[1]

\* The staged list without the streaming assistant messages whose text is a
\* silent reply so far.
Committed ==
    LET Shown(m) == ~(m.isStreaming /\ m.role = "assistant" /\ isSilentReply(m.content))
    IN  SelectSeq(Staged, Shown)

Ids(q) == {q[i].id : i \in DOMAIN q}

OfRun(q, runId) == {i \in DOMAIN q : q[i].runId = runId /\ q[i].role = "assistant"}

Max(S) == CHOOSE x \in S : \A y \in S : y <= x

\* C5: a complete, done or final event of the engine's session whose message
\* text is exactly a silent-reply sentinel leaves no assistant message of that
\* run in the list and keeps every other message of the list.
C5_SilentCompleteKeepsOthers ==
    [][(lastOp'.name = "handleComplete" /\ lastOp'.silent) =>
            /\ OfRun(messages', lastOp'.runId) = {}
            /\ \A m \in Range(messages) :
                    ~(m.runId = lastOp'.runId /\ m.role = "assistant")
                        => m \in Range(messages')]_vars

\* C6: once the timer flush that follows a delta carrying a truncated sentinel
\* prefix has run, the list holds no assistant message of the delta's run.
C6_SilentPrefixDeltaSuppressed ==
    [][(lastOp'.name = "flushBuffer" /\ streamBuf # None) =>
            \A m \in Range(streamBuf[1]) :
                SilentInProgress(m) => OfRun(messages', m.runId) = {}]_vars

VisibleBlocks(content) ==
    LET Visible(b) == b.type \in {"text", "thinking", "image"}
    IN  SelectSeq(content, Visible)

C9_OtherSessionIgnored ==
    [][lastOp'.name = "ignoredEvent" => \A payload \in OtherPayloads :
            ChatEvent(payload) =>
                /\ UNCHANGED <<messages, isStreaming, activeRunId, error, streamBuf,
                               flushTimer, listeners, nextId>>
                /\ emitted' = <<>>
                /\ netCalls' = <<>>]_vars

C9_Witness ==
    /\ lastOp.name = "ignoredEvent"
    /\ isStreaming
    /\ activeRunId = "r1"
    /\ streamBuf # None
    /\ flushTimer = "pending"
    /\ messages # <<>>
    /\ listeners["update"] # <<>>
    /\ listeners["error"] # <<>>

\* C10: a step other than clear removes no message from the list, except an
\* assistant message taken out as a silent reply: by a complete event with a
\* silent message for its run, or by a flush while the message is streaming
\* and its staged text is a silent reply so far.
C10_MessagesNeverRemoved ==
    [][lastOp'.name # "clear" =>
            \A m \in Range(messages) :
                \/ m.id \in Ids(messages')
                \/ /\ m.role = "assistant"
                   /\ \/ /\ lastOp'.name = "handleComplete"
                         /\ lastOp'.silent
                         /\ lastOp'.runId = m.runId
                      \/ /\ lastOp'.name \in {"flushBuffer", "handleComplete",
                                              "handleError", "handleAborted"}
                         /\ \E b \in Range(Staged) :
                                /\ b.id = m.id
                                /\ b.isStreaming
                                /\ isSilentReply(b.content)]_vars

\* The notifications of a channel among those an operation made.
Emitted(q, ch) == SelectSeq(q, LAMBDA e : e.ch = ch)

\* C11: an error event of the engine's session that carries an error text
\* commits the pending buffer, ends the streaming, clears the active run, sets
\* the error to the text and leaves exactly one assistant message of the run,
\* marked as an error with that text and not streaming; the error channel is
\* notified once, each subscriber once.
C11_ErrorLeavesOneErrorMessage ==
    [][(lastOp'.name = "handleError" /\ lastOp'.errorMessage # NoErr) =>
            /\ streamBuf' = None
            /\ flushTimer' = "null"
            /\ ~isStreaming'
            /\ activeRunId' = NoRun
            /\ error' = lastOp'.errorMessage
            /\ Cardinality(OfRun(messages', lastOp'.runId)) = 1
            /\ \A i \in OfRun(messages', lastOp'.runId) :
                    /\ messages'[i].isError
                    /\ ~messages'[i].isStreaming
                    /\ messages'[i].errorMessage = lastOp'.errorMessage
            /\ Calls(Emitted(emitted', "error")) =
                    <<[ch |-> "error", arg |-> lastOp'.errorMessage,
                       called |-> listeners["error"]]>>]_vars

C13_ClearResetsThenNotifies ==
    [][lastOp'.name = "clear" =>
            /\ messages' = <<>>
            /\ ~isStreaming'
            /\ activeRunId' = NoRun
            /\ error' = NoErr
            /\ emitted' = <<[ch |-> "update", arg |-> NoErr,
                             called |-> listeners["update"],
                             seen |-> [messages |-> <<>>, isStreaming |-> FALSE,
                                       activeRunId |-> NoRun, error |-> NoErr]]>>]_vars

C13_Witness ==
    /\ lastOp.name = "clear"
    /\ messages = <<>>
    /\ error = NoErr
    /\ nextId = 3
    /\ emitted[1].called = <<"s1">>

NoListeners == [ch \in Channels |-> <<>>]

\* C14: destroy unsubscribes the engine from the client, cancels a pending
\* flush timer and empties the four registries, and changes nothing else; a
\* destroy of a destroyed engine changes nothing at all. Afterwards no chat
\* event, connection change or timer expiry reaches the engine, and until a
\* callback subscribes again no operation notifies anyone.
C14_DestroyIdempotent ==
    [][/\ destroy(destroy(Cur)) = destroy(Cur)
       /\ lastOp'.name = "destroy" =>
            /\ ~subscribed'
            /\ flushTimer' # "pending"
            /\ listeners' = NoListeners
            /\ UNCHANGED <<messages, isStreaming, activeRunId, error, streamBuf, nextId>>
            /\ emitted' = <<>>
            /\ netCalls' = <<>>
            /\ (~subscribed /\ listeners = NoListeners) => flushTimer' = flushTimer
       /\ ~subscribed =>
            /\ lastOp'.name \notin {"flushBuffer", "handleDelta", "handleComplete",
                                    "handleError", "handleAborted", "ignoredEvent"}
            /\ lastOp'.name = "connectionState" =>
                    /\ UNCHANGED <<messages, isStreaming, activeRunId, error, streamBuf,
                                   flushTimer, listeners, nextId>>
                    /\ emitted' = <<>>
                    /\ netCalls' = <<>>
            /\ (listeners = NoListeners /\ lastOp'.name # "on") =>
                    \A i \in DOMAIN emitted' : emitted'[i].called = <<>>]_vars

\* A clear after a destroy that cancelled a pending timer.
C14_Witness ==
    /\ lastOp.name = "clear"
    /\ ~subscribed
    /\ flushTimer = "cleared"
    /\ streamBuf # None
    /\ Len(emitted) = 1
    /\ emitted[1].called = <<>>

Chans(q) == [i \in DOMAIN q |-> q[i].ch]

\* C15: on each of the four channels a notification calls every subscriber of
\* the channel, in the order they subscribed, whether or not one of them
\* throws, and the operation goes on after it: an error event notifies the
\* update channel and then the error channel, and a change to connected
\* issues chatSubscribe after notifying the connect channel.
C15_ThrowingSubscriberIsolated ==
    [][/\ \A i \in DOMAIN emitted' : emitted'[i].called = listeners[emitted'[i].ch]
       /\ lastOp'.name = "handleError" =>
            /\ Len(emitted') >= 2
            /\ SubSeq(Chans(emitted'), Len(emitted') - 1, Len(emitted')) = <<"update", "error">>
            /\ ~isStreaming'
       /\ (subscribed /\ lastOp'.name = "connectionState" /\ lastOp'.state = "connected") =>
            /\ Chans(emitted') = <<"connect">>
            /\ netCalls' = <<[method |-> "chatSubscribe", arg |-> OwnSession]>>
       /\ (subscribed /\ lastOp'.name = "connectionState" /\ lastOp'.state = "disconnected") =>
            Chans(emitted') = <<"disconnect">>
       /\ lastOp'.name = "clear" => Chans(emitted') = <<"update">>]_vars

\* An error event with the throwing subscriber first on the update and error
\* channels, and subscribers on the connect and disconnect channels.
C15_Witness ==
    /\ lastOp.name = "handleError"
    /\ Len(emitted) = 3
    /\ \A i \in DOMAIN emitted : emitted[i].called = <<"s1", "s2">>
    /\ listeners["connect"] = <<"s1", "s2">>
    /\ listeners["disconnect"] = <<"s1", "s2">>

\* C16: while the engine is subscribed to the client, a change of the
\* client's state to connected notifies the connect channel once and issues
\* chatSubscribe for the engine's session, a change to disconnected notifies
\* the disconnect channel once, and a change to another state does neither;
\* none of them changes a field of the engine.
C16_MirrorsConnection ==
    [][(subscribed /\ lastOp'.name = "connectionState") =>
            /\ UNCHANGED <<messages, isStreaming, activeRunId, error, streamBuf,
                           flushTimer, listeners, nextId>>
            /\ Calls(emitted') =
                    IF lastOp'.state = "connected"
                    THEN <<[ch |-> "connect", arg |-> NoErr, called |-> listeners["connect"]]>>
                    ELSE IF lastOp'.state = "disconnected"
                    THEN <<[ch |-> "disconnect", arg |-> NoErr,
                            called |-> listeners["disconnect"]]>>
                    ELSE <<>>
            /\ netCalls' =
                    IF lastOp'.state = "connected"
                    THEN <<[method |-> "chatSubscribe", arg |-> OwnSession]>>
                    ELSE <<>>]_vars

\* A change to connected of an engine that holds a message and an error.
C16_Witness ==
    /\ lastOp.name = "connectionState"
    /\ lastOp.state = "connected"
    /\ subscribed
    /\ isConnected
    /\ messages # <<>>
    /\ error # NoErr
    /\ Len(emitted) = 1
    /\ emitted[1].called = <<"s1", "s2">>
    /\ netCalls = <<[method |-> "chatSubscribe", arg |-> OwnSession]>>

\* C17: abort calls nothing on the client when no run is active or the client
\* is not connected; otherwise it issues one chatAbort for the engine's
\* session and the active run. In both cases it changes no field of the
\* engine and notifies nobody.
C17_AbortOnlyCalls ==
    [][lastOp'.name = "abort" =>
            /\ UNCHANGED <<messages, isStreaming, activeRunId, error, streamBuf,
                           flushTimer, listeners, nextId>>
            /\ emitted' = <<>>
            /\ netCalls' =
                    IF activeRunId = NoRun \/ ~isConnected THEN <<>>
                    ELSE <<[method |-> "chatAbort", arg |-> <<OwnSession, activeRunId>>]>>
            /\ pendingAbort' = pendingAbort + Len(netCalls')]_vars

C17_Witness ==
    /\ lastOp.name = "abort"
    /\ netCalls = <<[method |-> "chatAbort", arg |-> <<OwnSession, "r1">>]>>
    /\ isStreaming
    /\ activeRunId = "r1"
    /\ streamBuf # None
    /\ pendingAbort = 1

\* C18 as stated: a send of blank text without attachments records an error
\* and reports it on the error channel.
C18_BlankSendRecordsError ==
    [][lastOp'.name = "send" => \A text \in Texts :
            (trim(text) = <<>> /\ Send(text, NoAttachments)) =>
                /\ error' # NoErr
                /\ Emitted(emitted', "error") # <<>>]_vars

\* C18: a send of blank text without attachments on a connected client
\* records no error and notifies nobody: the error stays what it was; on a
\* client that is not connected it records "Not connected" and reports it on
\* the error channel once.
C18_BlankSendSilent ==
    [][lastOp'.name = "send" => \A text \in Texts :
            (trim(text) = <<>> /\ Send(text, NoAttachments)) =>
                IF isConnected
                THEN error' = error /\ emitted' = <<>>
                ELSE /\ error' = T_NotConnected
                     /\ Chans(emitted') = <<"error">>
                     /\ emitted'[1].arg = T_NotConnected]_vars

\* A blank send on a connected client with subscribers on the error channel.
C18_Witness ==
    /\ lastOp.name = "send"
    /\ isConnected
    /\ netCalls = <<>>
    /\ error = NoErr
    /\ emitted = <<>>
    /\ listeners["error"] = <<"s1", "s2">>

C20_ConnectWhileConnecting ==
    [][(clientOp'.name = "connect" /\ client.state \in {"connecting", "reconnecting"}) =>
            /\ clientOp'.outcome = "rejected"
            /\ clientOp'.error = "Already connecting"
            /\ clientOp'.broadcast = <<>>
            /\ client'.sockets = client.sockets
            /\ client'.socket = client.socket
            /\ client'.state = client.state
            /\ client'.connectCall = client.connectCall
            /\ client' = client]_vars

\* A rejected connect while the first connect waits for the gateway's answer.
C20_Witness ==
    /\ clientOp.name = "connect"
    /\ clientOp.outcome = "rejected"
    /\ client.state = "connecting"
    /\ client.connectCall = "pending"
    /\ client.socket = "open"
    /\ client.handshake
    /\ client.sockets = 1

\* The edges of the connection state machine as the claim lists them, with
\* the operation that takes each.
ListedEdge(from, op, to) ==
    \/ from = "disconnected" /\ op = "connect" /\ to = "connecting"
    \/ from = "connecting" /\ op = "onAccepted" /\ to = "connected"
    \/ from = "connected" /\ op = "onClose" /\ to = "reconnecting"
    \/ from = "reconnecting" /\ op = "onBackoffElapsed" /\ to = "connecting"
    \/ op = "disconnect" /\ to = "disconnected"

\* C21 as stated, for a client that reconnects by itself: the state starts as
\* disconnected and changes only along the listed edges; every change is
\* broadcast.
C21_OnlyListedEdges ==
    /\ client.state = "disconnected"
    /\ [][(client'.state # client.state /\ client.autoReconnect) =>
            /\ ListedEdge(client.state, clientOp'.name, client'.state)
            /\ clientOp'.broadcast = <<client'.state>>]_vars

\* C21: the state starts as disconnected; on a client that reconnects by
\* itself it changes only along the listed edges and from connecting to
\* reconnecting when the socket closes before the gateway accepted; a connect
\* on a disconnected client leaves the state connecting when it returns;
\* every change is broadcast once, and nothing is broadcast without a change.
C21_StateMachineEdges ==
    /\ client.state = "disconnected"
    /\ [][/\ (client'.state # client.state /\ client.autoReconnect) =>
                \/ ListedEdge(client.state, clientOp'.name, client'.state)
                \/ /\ client.state = "connecting"
                   /\ clientOp'.name = "onClose"
                   /\ client'.state = "reconnecting"
          /\ (clientOp'.name = "connect" /\ client.state = "disconnected") =>
                client'.state = "connecting"
          /\ clientOp'.broadcast =
                IF client'.state # client.state THEN <<client'.state>> ELSE <<>>]_vars

\* The socket of a client that reconnects by itself closed before the gateway
\* answered the connect request of its first attempt.
C21_Witness ==
    /\ clientOp.name = "onClose"
    /\ clientOp.broadcast = <<"reconnecting">>
    /\ client.autoReconnect
    /\ client.state = "reconnecting"
    /\ client.attempts = 1
    /\ client.sockets = 1
    /\ client.connectCall = "rejected"

\* C22: disconnect, in any state, closes the transport, cancels the pending
\* reconnection timer, fails every outstanding request with "Connection
\* closed" and leaves the state disconnected; from then until the next
\* connect() the state stays disconnected, no socket is opened and no
\* reconnection timer is set, also when the close callback of the closed
\* socket runs.
C22_DisconnectIsTerminal ==
    [][/\ clientOp'.name = "disconnect" =>
            /\ client'.state = "disconnected"
            /\ client'.socket \in {"none", "closing"}
            /\ client'.socket = "closing" <=> client.socket \in {"opening", "open", "closing"}
            /\ ~client'.reconnectTimer
            /\ client'.pending = {}
            /\ clientOp'.failed = client.pending
            /\ clientOp'.error = "Connection closed"
            /\ \A id \in client.pending : client'.results[id] = "rejected"
            /\ client'.closedByClient
       /\ (client.closedByClient /\ clientOp'.name # "connect") =>
            /\ client'.state = "disconnected"
            /\ client'.sockets = client.sockets
            /\ client'.socket \in {"none", "closing"}
            /\ ~client'.reconnectTimer
            /\ clientOp'.broadcast = <<>>]_vars

\* The close callback of the socket that disconnect closed has run on a client
\* that reconnects by itself and was connected.
C22_Witness ==
    /\ clientOp.name = "onClose"
    /\ client.closedByClient
    /\ client.autoReconnect
    /\ client.state = "disconnected"
    /\ client.socket = "none"
    /\ client.connectCall = "resolved"
    /\ ~client.reconnectTimer
    /\ client.results = <<"rejected">>

\* C23: a socket closure the client did not ask for, on a client that
\* reconnects by itself, leaves the state reconnecting with a timer set, the
\* timer's delay larger than that of the failure before it when there is one,
\* and within the first delay's range after an acceptance; the timer's expiry
\* opens a new socket in the state connecting; the state is reconnecting only
\* with a timer set, however many attempts failed; and when the gateway
\* accepts in the end, a reconnecting client becomes connected unless
\* disconnect is called.
C23_ReconnectsUntilAccepted ==
    /\ [][/\ (clientOp'.name = "onClose" /\ client.autoReconnect /\ ~client.closedByClient) =>
                /\ client'.state = "reconnecting"
                /\ client'.reconnectTimer
                /\ client'.attempts = client.attempts + 1
                /\ client.attempts >= 1 => client'.delay > client.delay
                /\ client.attempts = 0 =>
                        client'.delay \in BackoffBase..(BackoffBase + MaxJitter)
          /\ clientOp'.name = "onAccepted" => client'.attempts = 0
          /\ clientOp'.name = "onBackoffElapsed" =>
                /\ client.state = "reconnecting"
                /\ client'.state = "connecting"
                /\ client'.socket = "opening"
                /\ client'.sockets = client.sockets + 1
          /\ client'.state = "reconnecting" => client'.reconnectTimer]_vars
    /\ (client.state = "reconnecting") ~> (client.state = "connected" \/ client.closedByClient)

\* A client connected at its third socket, after two failed attempts in a row.
C23_Witness ==
    /\ clientOp.name = "onAccepted"
    /\ client.state = "connected"
    /\ client.sockets = 3
    /\ client.attempts = 0
    /\ client.delay >= 2 * BackoffBase
    /\ ~client.closedByClient

\* C24: when the socket closes, by itself or through disconnect, every
\* outstanding request is rejected with "Connection closed" and no
\* PendingRequest is left; a request is pending only on the socket it was
\* written to, and a response resolves a request only on that socket.
C24_NoRequestSurvivesClosure ==
    [][/\ clientOp'.name \in {"onClose", "disconnect"} =>
            /\ client'.pending = {}
            /\ clientOp'.failed = client.pending
            /\ clientOp'.error = "Connection closed"
            /\ \A id \in client.pending : client'.results[id] = "rejected"
       /\ \A id \in client'.pending :
            /\ client'.issuedOn[id] = client'.sockets
            /\ client'.socket = "open"
       /\ \A id \in DOMAIN client.results :
            (client.results[id] # "resolved" /\ client'.results[id] = "resolved") =>
                /\ client.issuedOn[id] = client.sockets
                /\ client.results[id] = "pending"]_vars

\* After a reconnection the gateway's answer to a request of the first
\* connection arrives and is dropped: the request stays rejected.
C24_Witness ==
    /\ clientOp.name = "onResponse"
    /\ clientOp.outcome = "ignored"
    /\ client.state = "connected"
    /\ client.sockets = 2
    /\ client.issuedOn = <<1>>
    /\ client.results = <<"rejected">>
    /\ client.pending = {}

\* The ninth field of a payload for params, with its separator.
NonceField(params) == IF params.nonce = None THEN "" ELSE "|" \o params.nonce[1]

\* The payload the claims describe: the fields in their order with "|" between
\* them, of the given version and followed by the given last field.
Canonical(params, version, last) ==
    version \o "|" \o params.deviceId \o "|" \o params.clientId \o "|"
        \o params.clientMode \o "|" \o params.role \o "|"
        \o (IF params.scopes = <<>> THEN ""
            ELSE IF Len(params.scopes) = 1 THEN params.scopes[1]
            ELSE params.scopes[1] \o "," \o params.scopes[2])
        \o "|" \o NumberToString(params.signedAtMs) \o "|"
        \o (IF params.authToken = None THEN "" ELSE params.authToken[1])
        \o last

\* C25 as stated: the payload is of version v2 and ends with the nonce
\* whenever a nonce is supplied, the empty nonce included.
C25_NonceSuppliedIsV2 ==
    idpOp.name = "buildSignaturePayload" =>
        idpOp.result =
            IF idpOp.params.nonce # None
            THEN Canonical(idpOp.params, "v2", NonceField(idpOp.params))
            ELSE Canonical(idpOp.params, "v1", "")

\* C25: buildSignaturePayload returns version, deviceId, clientId, clientMode,
\* role, the scopes joined by ",", signedAtMs in decimal and authToken (empty
\* when absent) joined by "|"; with a nonce that is not empty the version is
\* v2 and the nonce is the last field; without a nonce, or with the empty
\* nonce, the version is v1 and there is no further field.
C25_PayloadCanonical ==
    idpOp.name = "buildSignaturePayload" =>
        idpOp.result =
            IF idpOp.params.nonce \notin {None, Some("")}
            THEN Canonical(idpOp.params, "v2", NonceField(idpOp.params))
            ELSE Canonical(idpOp.params, "v1", "")

\* The payload of the parameters of the test with a nonce.
C25_Witness ==
    /\ idpOp.name = "buildSignaturePayload"
    /\ idpOp.params.nonce = Some("nonce-xyz")
    /\ idpOp.result =
        "v2|device-123|test-client|ui|operator|read,write|1234567890|token-abc|nonce-xyz"

\* C26 as stated: every loadOrCreateIdentity returns the deviceId and the
\* publicKey that the first call since the start of the process returned.
C26_RepeatedCallsSameIdentity ==
    (idpOp.name = "loadOrCreateIdentity" /\ idp.first # None) =>
        /\ idpOp.result[1].deviceId = idp.first[1].deviceId
        /\ idpOp.result[1].publicKey = idp.first[1].publicKey

\* C27 as stated: every identity that loadOrCreateIdentityAsync returns pairs
\* a private key with the publicKey derived from it and the deviceId derived
\* from that publicKey, whatever reads and writes of the stores failed before.
C27_ReturnedIdentityIsOneKeyPair ==
    (idpOp.name = "loadOrCreateIdentityAsync" /\ idpOp.outcome = "returned") =>
        /\ idpOp.result[1].publicKey = getPublicKey(idpOp.result[1].privateKey)
        /\ idpOp.result[1].deviceId = sha256Hex(idpOp.result[1].publicKey)

\* C28 as stated: the public fields of every identity that
\* loadOrCreateIdentityAsync returns, with expo-secure-store present, are the
\* ones the secure store holds.
C28_CacheNeverAuthoritative ==
    (/\ idpOp.name = "loadOrCreateIdentityAsync"
     /\ idpOp.outcome = "returned"
     /\ ValidStored(idp.secure.public)) =>
        PublicFields(idpOp.result[1]) = idp.secure.public[1].json

\* C29 as stated: while the modal is closed the client is disconnected, with
\* no socket open or opening and no reconnection timer set.
C29_ClosedModalIsDisconnected ==
    ~modal.visible =>
        /\ client.state = "disconnected"
        /\ client.socket \in {"none", "closing"}
        /\ ~client.reconnectTimer

\* C30: the engine has at most one timeout set, and has one exactly while its
\* handle is that of a pending timer; a chat event that arrives while the
\* timer is pending sets no timeout, and leaves the pending one unless it
\* clears it.
C30_SingleFlushTimer ==
    /\ timers <= 1
    /\ (timers = 1) <=> (flushTimer = "pending")
    /\ [][(lastOp'.name = "handleDelta" /\ flushTimer = "pending") =>
                /\ timers' = 1
                /\ flushTimer' = "pending"]_vars

\* A second delta arrived while the timer of the first was pending.
C30_Witness ==
    /\ lastOp.name = "handleDelta"
    /\ lastOp.timer = "pending"
    /\ lastOp.hasMessage
    /\ flushTimer = "pending"
    /\ timers = 1
    /\ messages = <<>>
    /\ streamBuf # None

\* C31: a delta leaves the public list as it is and notifies nobody; the
\* expiry of the flush timer publishes what the deltas of the window staged
\* with one 'update' notification, whose subscribers see the published list.
C31_DeltaOnlyStages ==
    [][/\ lastOp'.name = "handleDelta" =>
            /\ messages' = messages
            /\ emitted' = <<>>
       /\ lastOp'.name = "flushBuffer" =>
            /\ streamBuf # None
            /\ messages' = commitBuffer(streamBuf[1])
            /\ Len(emitted') = 1
            /\ emitted'[1].ch = "update"
            /\ emitted'[1].seen.messages = messages']_vars

\* The deltas of two runs arrived in one flush window: both are staged and
\* none is published.
C31_Witness ==
    /\ lastOp.name = "handleDelta"
    /\ lastOp.timer = "pending"
    /\ lastOp.hasMessage
    /\ messages = <<>>
    /\ emitted = <<>>
    /\ streamBuf # None
    /\ Len(streamBuf[1]) = 2
    /\ streamBuf[1][1].runId # streamBuf[1][2].runId

TerminalOps == {"handleComplete", "handleError", "handleAborted"}

\* C32: a terminal event of the engine's session first publishes the staged
\* buffer, with a notification of its own, and leaves the engine not
\* streaming, without an active run, without a timer (handle null, no timeout
\* set, so none can expire) and without a staging buffer.
C32_TerminalEventSettles ==
    [][lastOp'.name \in TerminalOps =>
            /\ ~isStreaming'
            /\ activeRunId' = NoRun
            /\ flushTimer' = "null"
            /\ timers' = 0
            /\ streamBuf' = None
            /\ streamBuf # None =>
                    /\ emitted'[1].ch = "update"
                    /\ emitted'[1].seen.messages = commitBuffer(streamBuf[1])]_vars

\* A complete event without message arrived while the timer was pending: the
\* staged message is published and finished.
C32_Witness ==
    /\ lastOp.name = "handleComplete"
    /\ lastOp.timer = "pending"
    /\ ~lastOp.hasMessage
    /\ Len(messages) = 1
    /\ messages[1].role = "assistant"
    /\ ~messages[1].isStreaming
    /\ Len(emitted) = 2
    /\ emitted[1].seen.messages[1].isStreaming
    /\ timers = 0
    /\ streamBuf = None

\* C33: the first delta of a flush window (no timer is pending when it comes)
\* stages its change on a snapshot of the public list as it is then: every
\* message of engine.messages is in the buffer the delta leaves, so that the
\* next flush publishes it.
C33_WindowStartsFromPublicList ==
    [][(lastOp'.name = "handleDelta" /\ lastOp'.hasMessage /\ flushTimer = "null") =>
            Ids(messages) \subseteq Ids(streamBuf'[1])]_vars

\* The last assistant message of the run in the list, None when it has none.
LastOfRun(q, runId) ==
    LET i == findExisting(q, runId, Len(q)) IN IF i = 0 THEN None ELSE Some(q[i])

\* C34: a delta with a message replaces the content of the last staged
\* assistant message of its run by the normalized content of the delta and
\* marks it streaming, its id and place unchanged, or, when none is staged,
\* stages one new assistant message at the end; after the flush that follows
\* the last assistant message of the run on the public list is that message.
C34_DeltaReplacesContent ==
    [][/\ (lastOp'.name = "handleDelta" /\ lastOp'.hasMessage) =>
            LET runId == lastOp'.runId
                content == normalizeContent(lastOp'.message[1])
                i == findExisting(Staged, runId, Len(Staged))
            IN  /\ streamBuf' # None
                /\ i > 0 =>
                    streamBuf'[1] = [Staged EXCEPT ![i] =
                        [@ EXCEPT !.content = content, !.isStreaming = TRUE]]
                /\ i = 0 =>
                    streamBuf'[1] = Append(Staged,
                        UIMessage(nextId, "assistant", content, TRUE, FALSE, NoErr, runId))
       /\ lastOp'.name = "flushBuffer" =>
            \A runId \in {"r1", "r2"} :
                LastOfRun(messages', runId) # None =>
                    LastOfRun(messages', runId) = LastOfRun(streamBuf[1], runId)]_vars

\* The texts that count as silent, letter by letter.
SilentWords ==
    { <<"N", "O", "_", "R", "E", "P", "L", "Y">>,
      <<"H", "E", "A", "R", "T", "B", "E", "A", "T", "_", "O", "K">>,
      <<"N", "O", "_", "R", "E", "P", "L">>, <<"N", "O", "_", "R", "E", "P">>,
      <<"N", "O", "_", "R", "E">>, <<"N", "O", "_", "R">>, <<"N", "O", "_">>,
      <<"H", "E", "A", "R", "T", "B", "E", "A", "T", "_", "O">>,
      <<"H", "E", "A", "R", "T", "B", "E", "A", "T", "_">>,
      <<"H", "E", "A", "R", "T", "B", "E", "A", "T">> }

\* The texts of the text blocks of a content list, one after the other.
TextOf(content) ==
    LET Texts0[i \in 0..Len(content)] ==
            IF i = 0 THEN <<>>
            ELSE IF content[i].type = "text" THEN Texts0[i - 1] \o content[i].text
            ELSE Texts0[i - 1]
    IN  Texts0[Len(content)]

\* t is w with nothing but white space before and after it.
IsPadded(t, w) ==
    \E i \in 1..(Len(t) + 1) :
        /\ i + Len(w) - 1 <= Len(t)
        /\ SubSeq(t, i, i + Len(w) - 1) = w
        /\ \A k \in 1..Len(t) : (k < i \/ k >= i + Len(w)) => t[k] \in Whitespace

\* C35: a content list is a silent reply exactly when the text of its text
\* blocks, white space at its ends apart, is one of the ten listed texts.
C35_SilentIsExactMatch ==
    lastOp.name = "isSilentReply" =>
        (lastOp.result <=> \E w \in SilentWords : IsPadded(TextOf(lastOp.content), w))

\* A cut sentinel with a space before it, in two text blocks around a
\* thinking block, is found silent.
C35_Witness ==
    /\ lastOp.name = "isSilentReply"
    /\ lastOp.result
    /\ Len(lastOp.content) = 3
    /\ lastOp.content[1].text = <<" ", "N">>
    /\ lastOp.content[3].text = <<"O", "_", "R", "E", "P", " ">>

RequestIds == 1..MaxRequests

\* C36: a request that is settled stays as it was settled; a request is
\* settled exactly when its PendingRequest is removed, which a response, an
\* error response or a timeout of its id or a closure does; a response, an
\* error response or a timeout touches no request but the one of its id and
\* nothing when that one is settled; every request is settled in the end.
C36_SettledExactlyOnce ==
    /\ [][/\ \A id \in DOMAIN client.results :
                /\ client.results[id] # "pending" => client'.results[id] = client.results[id]
                /\ (client.results[id] = "pending" /\ client'.results[id] # "pending") =>
                        \/ clientOp'.name \in {"onResponse", "onErrorResponse", "onTimeout"}
                                /\ clientOp'.id = id
                        \/ clientOp'.name \in {"onClose", "disconnect"}
          /\ \A id \in DOMAIN client'.results :
                (client'.results[id] = "pending") <=> (id \in client'.pending)
          /\ clientOp'.name \in {"onResponse", "onErrorResponse", "onTimeout"} =>
                /\ \A id \in DOMAIN client.results :
                        id # clientOp'.id => client'.results[id] = client.results[id]
                /\ clientOp'.id \notin client.pending => client' = client
                /\ clientOp'.id \in client.pending =>
                        /\ client'.pending = client.pending \ {clientOp'.id}
                        /\ client'.results[clientOp'.id] =
                                IF clientOp'.name = "onResponse" THEN "resolved" ELSE "rejected"]_vars
    /\ \A id \in RequestIds : (id \in client.pending) ~> (id \notin client.pending)

\* The response to the first of two requests arrives after its timeout fired
\* and is dropped, while the second request is still pending.
C36_Witness ==
    /\ clientOp.name = "onResponse"
    /\ clientOp.outcome = "ignored"
    /\ clientOp.id = 1
    /\ client.results = <<"rejected", "pending">>
    /\ client.pending = {2}
    /\ client.sockets = 1

\* C37: no message that clear() took off the list is on the list after the
\* step that follows the clear, a timer flush or a delta of the earlier run
\* included.
C37_ClearedStayCleared ==
    [][lastOp.name = "clear" => Ids(messages') \cap lastOp.cleared = {}]_vars

\* C38: when the engine is not streaming, no message of the public list is
\* marked as streaming.
C38_StreamingFlagConsistent ==
    ~isStreaming => \A i \in DOMAIN messages : ~messages[i].isStreaming

\* C39: whatever the order in which the response of chatSend and the chat
\* events of its run are processed, the public list holds at most one
\* assistant message of the run, and when the send resumes after the run's
\* terminal event has finished its message, the engine is not streaming.
C39_OneAssistantPerRun ==
    /\ Cardinality(OfRun(messages, "r1")) <= 1
    /\ ( /\ lastOp.name = "sendResolved"
         /\ streamBuf = None
         /\ \E i \in DOMAIN messages :
                messages[i].role = "assistant" /\ ~messages[i].isStreaming )
            => ~isStreaming

\* C40: an assistant message of the public list that is finished stays
\* finished, and a chat event of its run does not leave the engine streaming.
C40_FinalizationPermanent ==
    [][\A i \in DOMAIN messages :
            (messages[i].role = "assistant" /\ ~messages[i].isStreaming) =>
                /\ \A j \in DOMAIN messages' :
                        messages'[j].id = messages[i].id => ~messages'[j].isStreaming
                /\ (lastOp'.name \in TerminalOps \cup {"handleDelta"}
                        /\ lastOp'.runId = messages[i].runId) => ~isStreaming']_vars

====
